---- MODULE Spec2Model ----
(***************************************************************************)
(* Cross-App Access fetch middleware (CrossAppAccessMiddleware) and its    *)
(* utilities, as a state machine.  Every top-level fetch call is a call id *)
(* of Calls; every await of the TypeScript code is a suspension point, and *)
(* the code between two awaits is one atomic step (JavaScript runs it to   *)
(* completion on one thread).                                              *)
(***************************************************************************)
EXTENDS Integers, Sequences, FiniteSets, TLC

VARIABLES
  cfg,                   \* this.config: which optional callbacks are configured
  now,                   \* Date.now(), in milliseconds
  tokenCache,            \* this.tokenCache: origin -> entry
  pendingTokenRequests,  \* this.pendingTokenRequests: origin -> promise
  call,                  \* the top-level fetch calls, by call id
  acq,                   \* the performTokenAcquisition promises, by the id of the call that started them
  parsing,               \* a call of parseWwwAuthenticate on its own: the header value and what is returned
  cleared                \* observation: the acquisitions that were in flight when clearTokenCache was called

vars == <<cfg, now, tokenCache, pendingTokenRequests, call, acq, parsing, cleared>>

----------------------------------------------------------------------------
(* Bounds of the model *)

NumCalls == 2      \* top-level fetch calls
MaxTicks == 1      \* clock steps of TickMs

(* Program constants *)

SkewBufferMs == 60000       \* "1 minute buffer"
DefaultExpiresIn == 3600    \* tokenResponse.expires_in || 3600
MsPerSecond == 1000
StatusUnauthorized == 401

TickMs == SkewBufferMs

Calls == 1 .. NumCalls

----------------------------------------------------------------------------
(* Optional values: undefined / null against a present value *)

Undef == [def |-> FALSE, v |-> <<>>]
Some(x) == [def |-> TRUE, v |-> x]

\* JavaScript truthiness of an optional string (a sequence of characters)
Truthy(o) == o.def /\ o.v # <<>>

\* a || b on optional strings
OrElse(a, b) == IF Truthy(a) THEN a ELSE b

----------------------------------------------------------------------------
(* parseWwwAuthenticate: a header value is a sequence of characters *)

Lower == {"a","b","c","d","e","f","g","h","i","j","k","l","m",
          "n","o","p","q","r","s","t","u","v","w","x","y","z"}
Upper == {"A","B","C","D","E","F","G","H","I","J","K","L","M",
          "N","O","P","Q","R","S","T","U","V","W","X","Y","Z"}
Digit == {"0","1","2","3","4","5","6","7","8","9"}

\* \w
WordChars == Lower \cup Upper \cup Digit \cup {"_"}
IsWord(c) == c \in WordChars

\* \s
IsSpace(c) == c \in {" ", "\t"}

MinOf(S) == CHOOSE x \in S : \A y \in S : x <= y

\* the first position >= i of h that is past a run of \w (Len(h)+1 at the end)
WordEnd(h, i) ==
  MinOf({j \in i .. Len(h) + 1 : j = Len(h) + 1 \/ ~IsWord(h[j])})

\* /^(\w+)/ : the leading run of word characters, '' when there is none
SchemeOf(h) == SubSeq(h, 1, WordEnd(h, 1) - 1)

\* the start positions >= i at which /(\w+)=/ matches
ParamStarts(h, i) ==
  {s \in i .. Len(h) : /\ IsWord(h[s])
                       /\ WordEnd(h, s) <= Len(h)
                       /\ h[WordEnd(h, s)] = "="}

\* one match of /(\w+)=(?:"([^"]*)"|([^\s,]*))/g from position i
\* (found, key, value = match[2] || match[3], next = lastIndex + 1)
ParamMatch(h, i) ==
  IF ParamStarts(h, i) = {} THEN [found |-> FALSE, key |-> <<>>, value |-> Undef, next |-> i]
  ELSE
    LET s     == MinOf(ParamStarts(h, i))
        e     == WordEnd(h, s)
        a     == e + 1
        close == {q \in a + 1 .. Len(h) : h[q] = "\""}
        quoted == a <= Len(h) /\ h[a] = "\"" /\ close # {}
        q     == MinOf(close)
        r     == MinOf({j \in a .. Len(h) + 1 :
                          j = Len(h) + 1 \/ IsSpace(h[j]) \/ h[j] = ","})
        m2    == IF quoted THEN Some(SubSeq(h, a + 1, q - 1)) ELSE Undef
        m3    == IF quoted THEN Undef ELSE Some(SubSeq(h, a, r - 1))
    IN [found |-> TRUE,
        key   |-> SubSeq(h, s, e - 1),
        value |-> OrElse(m2, m3),
        next  |-> IF quoted THEN q + 1 ELSE r]

K_realm == <<"r","e","a","l","m">>
K_scope == <<"s","c","o","p","e">>
K_error == <<"e","r","r","o","r">>
K_error_description ==
  <<"e","r","r","o","r","_","d","e","s","c","r","i","p","t","i","o","n">>
K_resource_metadata ==
  <<"r","e","s","o","u","r","c","e","_","m","e","t","a","d","a","t","a">>

\* the switch (key) of the parameter loop
SetParam(ch, key, value) ==
  IF key = K_realm THEN [ch EXCEPT !.realm = value]
  ELSE IF key = K_scope THEN [ch EXCEPT !.scope = value]
  ELSE IF key = K_error THEN [ch EXCEPT !.error = value]
  ELSE IF key = K_error_description THEN [ch EXCEPT !.error_description = value]
  ELSE IF key = K_resource_metadata THEN [ch EXCEPT !.resource_metadata = value]
  ELSE ch

RECURSIVE ParamLoop(_, _, _)
ParamLoop(h, i, ch) ==
  LET m == ParamMatch(h, i)
  IN IF m.found THEN ParamLoop(h, m.next, SetParam(ch, m.key, m.value)) ELSE ch

EmptyChallenge ==
  [scheme |-> <<>>, realm |-> Undef, scope |-> Undef, error |-> Undef,
   error_description |-> Undef, resource_metadata |-> Undef]

parseWwwAuthenticate(h) ==
  ParamLoop(h, 1, [EmptyChallenge EXCEPT !.scheme = SchemeOf(h)])

----------------------------------------------------------------------------
(* URLs, requests, responses, tokens *)

Url(o, p) == [origin |-> o, path |-> p]
NoUrl == Url("", "")

\* new URL(request.url).origin
getResourceUrl(u) == u.origin

\* two origins: each may be fetched through the middleware, and each may
\* host the token endpoint an authorization server advertises
McpOrigin == "https://mcp.example.com"
AuthOrigin == "https://auth.example.com"
Origins == {McpOrigin, AuthOrigin}

\* the URLs the application fetches through the middleware
Targets == {Url(o, "/api") : o \in Origins}

\* the token_endpoint values an authorization server may advertise
TokenEndpoints == {Url(o, "/token") : o \in Origins}

\* issuer identifiers listed in authorization_servers
AuthServer == "https://auth.example.com"
AuthServer2 == "https://auth2.example.com"

NoToken == [kind |-> "none", by |-> 0]
AccessToken(a) == [kind |-> "access", by |-> a]   \* access_token of the JWT bearer grant response
IdJag(a) == [kind |-> "idjag", by |-> a]          \* access_token of a token exchange response of type id-jag
OtherToken(a) == [kind |-> "other", by |-> a]     \* access_token of a token exchange response of another type
ExtToken == [kind |-> "ext", by |-> 0]            \* a token returned by config.getCachedAccessToken

\* header values of a 401 response
H_Basic == <<"B","a","s","i","c"," ","r","e","a","l","m","=","x">>
H_Bearer == <<"B","e","a","r","e","r">>
H_BearerRealm == H_Bearer \o <<" ">> \o K_realm \o <<"=","\"","x","\"">>
H_BearerMeta == H_Bearer \o <<" ">> \o K_resource_metadata \o <<"=","\"","m","\"">>
H_BearerScopeMeta ==
  H_Bearer \o <<" ">> \o K_scope \o <<"=","s",","," ">> \o K_resource_metadata \o <<"=","m">>

\* a challenge naming another metadata URL
H_BearerMeta2 == H_Bearer \o <<" ">> \o K_resource_metadata \o <<"=","\"","n","\"">>

\* response.headers.get('WWW-Authenticate'): null when the header is absent
WwwAuthenticateValues ==
  {Undef, Some(H_Basic), Some(H_BearerRealm), Some(H_BearerMeta), Some(H_BearerScopeMeta)}

\* parseWwwAuthenticate on the header values above, evaluated once
ParsedHeaders ==
  (H_Basic :> parseWwwAuthenticate(H_Basic))
    @@ (H_BearerRealm :> parseWwwAuthenticate(H_BearerRealm))
    @@ (H_BearerMeta :> parseWwwAuthenticate(H_BearerMeta))
    @@ (H_BearerScopeMeta :> parseWwwAuthenticate(H_BearerScopeMeta))
    @@ (H_BearerMeta2 :> parseWwwAuthenticate(H_BearerMeta2))

\* which of the header values above a response carries
HeaderKind(h) ==
  IF ~h.def THEN "absent"
  ELSE IF h.v = H_Basic THEN "not-bearer"
  ELSE IF h.v = H_BearerRealm THEN "bearer-no-metadata"
  ELSE "bearer-metadata"

\* status 0 stands for a rejected fetchFn promise (network error)
NetworkError == 0
Response(st, h, c, n) == [status |-> st, hdr |-> h, id |-> <<c, n>>]
NoResponse == Response(-1, Undef, 0, 0)

\* what the target resource may answer to the n-th request of call c
TargetResponsesWith(c, n, H) ==
  {Response(200, Undef, c, n), Response(NetworkError, Undef, c, n)}
    \cup {Response(StatusUnauthorized, h, c, n) : h \in H}

TargetResponses(c, n) == TargetResponsesWith(c, n, WwwAuthenticateValues)

\* the same where the code reads nothing but the status of the response
\* (the request sent with a cached token, and the retry)
StatusResponses(c, n) ==
  {Response(200, Undef, c, n), Response(NetworkError, Undef, c, n),
   Response(StatusUnauthorized, Some(H_BearerMeta), c, n)}

\* response.status === 401
isUnauthorized(r) == r.status = StatusUnauthorized

\* response.ok
IsOk(st) == st >= 200 /\ st <= 299

\* what a discovery or token endpoint may answer; a rejected fetchFn promise
\* is drawn where the code catches it (discoverAuthorizationServerMetadata)
UpstreamStatuses == {200, 400}
DiscoveryStatuses == {200, 400, NetworkError}

\* authorization_servers of a protected resource metadata document
AuthorizationServersValues ==
  {Undef, Some(<<>>), Some(<<AuthServer>>), Some(<<AuthServer, AuthServer2>>)}

\* token_endpoint of an authorization server metadata document
TokenEndpointValues == {NoUrl} \cup TokenEndpoints

\* expires_in of an access token response (seconds); undefined when omitted
NoNumber == [def |-> FALSE, n |-> 0]
Num(n) == [def |-> TRUE, n |-> n]
ExpiresInValues == {NoNumber, Num(120)}

----------------------------------------------------------------------------
(* Upstream replies *)

\* the body of a reply as response.json() and extractOAuthError read it:
\* whether it parses as JSON, and its error and error_description fields
\* ('' where the field is absent)
Body(json, error, description) ==
  [json |-> json, error |-> error, error_description |-> description]

NotJsonBody == Body(FALSE, "", "")
JsonBody == Body(TRUE, "", "")

\* bodies of a non-2xx reply
AllErrorBodies ==
  {NotJsonBody, JsonBody,
   Body(TRUE, "invalid_grant", ""),
   Body(TRUE, "invalid_grant", "assertion expired"),
   Body(TRUE, "", "assertion expired")}

\* the non-2xx bodies drawn where the claims are not about the error text
ErrorBodies == {NotJsonBody}

\* response.statusText
StatusText(st) ==
  IF st = 200 THEN "OK" ELSE IF st = 400 THEN "Bad Request"
  ELSE IF st = StatusUnauthorized THEN "Unauthorized" ELSE ""

\* the HTTP status line fallback of extractOAuthError
StatusLine(st) == "HTTP " \o ToString(st) \o " " \o StatusText(st)

\* extractOAuthError(response)
extractOAuthError(st, b) ==
  IF b.json /\ b.error # ""
  THEN (IF b.error_description # "" THEN b.error_description ELSE b.error)
  ELSE StatusLine(st)

\* issued_token_type of a token exchange response
IdJagTokenType == "urn:ietf:params:oauth:token-type:id-jag"
IssuedTokenType(tok) ==
  IF tok.kind = "idjag" THEN IdJagTokenType
  ELSE "urn:ietf:params:oauth:token-type:access_token"

\* FirstServer selecting the last entry
FirstServerLast(servers) == servers[Len(servers)]

\* metadata.authorization_servers[0]
FirstServer(servers) == servers[1]

\* an upstream reply as the pipeline reads it: status (NetworkError for a
\* rejected fetchFn promise), body, and the fields of a 2xx document; for
\* config.getIdToken, whether it resolved
UpstreamReply(st, b) ==
  [status |-> st, body |-> b, servers |-> Undef, endpoint |-> NoUrl,
   tokenType |-> "", idToken |-> TRUE]
NoReply == UpstreamReply(-1, NotJsonBody)

----------------------------------------------------------------------------
(* State *)

NoPromise == 0
\* a cache entry { token, expiresAt }, with two observations: the time it was
\* stored at and the expires_in of the response it was stored from
NoEntry == [token |-> NoToken, expiresAt |-> 0, storedAt |-> 0, expiresIn |-> NoNumber]

\* a top-level fetch call: where it is suspended (pc), its request URL, the
\* Authorization token of each request it sent to the target (reqs), the
\* promise it awaits, the response it returned or the error it threw; and
\* two observations: whether it was issued while another call to the same
\* origin had no response yet (overlap), the kind of WWW-Authenticate
\* value of the 401 that handleUnauthorized examined (examined), and what
\* config.getCachedAccessToken returned to its lookup (ext), the status
\* of the response received to each request (got), and, while it awaits an
\* acquisition another call started, the metadata URL and scope of its own
\* challenge (own)
NoOwn == [metadataUrl |-> <<>>, scope |-> Undef]
NoCall ==
  [pc |-> "idle", url |-> NoUrl, reqs |-> <<>>, awaiting |-> NoPromise,
   result |-> NoResponse, error |-> "", overlap |-> FALSE, examined |-> "",
   ext |-> NoToken, got |-> <<>>, own |-> NoOwn]

\* a performTokenAcquisition promise: its state (st), its arguments and
\* locals, the value or error it settled with, the outbound calls it made in
\* order (calls), and whether the pending entry has
\* been deleted by the finally of acquireAccessToken (released)
NoAcq ==
  [st |-> "none", key |-> "", metadataUrl |-> <<>>, scope |-> Undef,
   issuer |-> "", tokenEndpoint |-> NoUrl, idJag |-> NoToken,
   token |-> NoToken, error |-> "", calls |-> <<>>, released |-> FALSE,
   asmIssuer |-> "", audience |-> "", reply |-> NoReply]

\* a WWW-Authenticate value as it was put together (decl: the scheme, and the
\* parameters in order, each with its key, its value and its quoting), the
\* header value itself, and what parseWwwAuthenticate returned for it
NoDecl == [scheme |-> <<>>, params |-> <<>>]
NoParsing == [decl |-> NoDecl, header |-> <<>>, challenge |-> EmptyChallenge, done |-> FALSE]

\* the constructor: both maps empty
Init ==
  /\ cfg \in [getCachedAccessToken : BOOLEAN, onAccessTokenReceived : BOOLEAN]
  /\ now = 0
  /\ tokenCache = [o \in Origins |-> NoEntry]
  /\ pendingTokenRequests = [o \in Origins |-> NoPromise]
  /\ call = [c \in Calls |-> NoCall]
  /\ acq = [c \in Calls |-> NoAcq]
  /\ parsing = NoParsing
  /\ cleared = {}

----------------------------------------------------------------------------
(* Token cache *)

\* InternalLookup serving an entry at its expiry time too
InternalLookupInclusive(k) ==
  IF tokenCache[k] # NoEntry /\ tokenCache[k].expiresAt >= now
  THEN tokenCache[k].token
  ELSE NoToken

\* InternalLookup without the expiry test
InternalLookupNoExpiry(k) ==
  IF tokenCache[k] # NoEntry THEN tokenCache[k].token ELSE NoToken

\* getCachedToken, lines 344-350: the internal cache
InternalLookup(k) ==
  IF tokenCache[k] # NoEntry /\ tokenCache[k].expiresAt > now
  THEN tokenCache[k].token
  ELSE NoToken

\* getCachedToken reading the internal cache first
getCachedTokenInternalFirst(k, ext) ==
  IF InternalLookup(k) # NoToken THEN InternalLookup(k)
  ELSE IF cfg.getCachedAccessToken THEN ext ELSE NoToken

\* getCachedToken: ext is what config.getCachedAccessToken returned
\* (NoToken for null, and when it is not configured)
getCachedToken(k, ext) ==
  IF cfg.getCachedAccessToken /\ ext # NoToken THEN ext ELSE InternalLookup(k)

\* tokenResponse.expires_in || 3600
EffectiveExpiresIn(e) == IF e.def /\ e.n # 0 THEN e.n ELSE DefaultExpiresIn

\* Date.now() + expiresIn * 1000 - 60000
ExpiresAt(e) == now + EffectiveExpiresIn(e) * MsPerSecond - SkewBufferMs

\* the key of this.tokenCache.set in performJwtBearerGrant
CacheKey(a) == getResourceUrl(acq[a].tokenEndpoint)

\* this.tokenCache.delete(k)
CacheDelete(k) == [tokenCache EXCEPT ![k] = NoEntry]

----------------------------------------------------------------------------
(* fetch *)

Send(c, t) == [call[c] EXCEPT !.reqs = Append(@, t)]

Returned(c, r) == [call[c] EXCEPT !.pc = "Returned", !.result = r]

Failed(c, e) == [call[c] EXCEPT !.pc = "Failed", !.error = e]

Examined(rec, r) == [rec EXCEPT !.examined = HeaderKind(r.hdr)]

\* fetchFn settled with r
Heard(rec, r) == [rec EXCEPT !.got = Append(@, r.status)]

\* lines 67-81 after the lookup: send with the cached token, or bare
AfterLookup(c, u, t, ov, ext) ==
  call' = [call EXCEPT ![c] =
             [@ EXCEPT !.pc = IF t # NoToken THEN "cachedSend" ELSE "bareSend",
                       !.url = u,
                       !.reqs = <<t>>,
                       !.overlap = ov,
                       !.ext = ext]]

\* another call to the origin of u has been issued and has no response yet
Overlaps(c, u) ==
  \E d \in Calls \ {c} :
    /\ call[d].pc \in {"extLookup", "cachedSend", "bareSend"}
    /\ Len(call[d].reqs) <= 1
    /\ getResourceUrl(call[d].url) = getResourceUrl(u)

\* the two origins are interchangeable, so the first call is to McpOrigin
FetchTargets(c) == IF c = 1 THEN {Url(McpOrigin, "/api")} ELSE Targets

\* fetch(input): up to the first suspension
Fetch(c) ==
  /\ call[c].pc = "idle"
  /\ IF c = 1 THEN TRUE ELSE call[c - 1].pc # "idle"
  /\ \E u \in FetchTargets(c) :
       IF cfg.getCachedAccessToken
       THEN call' = [call EXCEPT ![c] =
                       [@ EXCEPT !.pc = "extLookup", !.url = u, !.overlap = Overlaps(c, u)]]
       ELSE AfterLookup(c, u, getCachedToken(getResourceUrl(u), NoToken), Overlaps(c, u),
                        NoToken)
  /\ UNCHANGED <<cfg, now, tokenCache, pendingTokenRequests, acq>>

\* config.getCachedAccessToken(resourceUrl) returns
ExtLookupReturn(c) ==
  /\ call[c].pc = "extLookup"
  /\ \E ext \in {NoToken, ExtToken} :
       AfterLookup(c, call[c].url, getCachedToken(getResourceUrl(call[c].url), ext),
                   call[c].overlap, ext)
  /\ UNCHANGED <<cfg, now, tokenCache, pendingTokenRequests, acq>>

\* CachedResponse evicting the entry whatever the response
CachedResponseEvictAlways(c) ==
  /\ call[c].pc = "cachedSend"
  /\ \E r \in StatusResponses(c, 1) :
       /\ tokenCache' = CacheDelete(getResourceUrl(call[c].url))
       /\ call' = [call EXCEPT ![c] =
            Heard(IF r.status = NetworkError THEN Failed(c, "network")
                  ELSE IF ~isUnauthorized(r) THEN Returned(c, r)
                  ELSE [Send(c, NoToken) EXCEPT !.pc = "bareSend"], r)]
  /\ UNCHANGED <<cfg, now, pendingTokenRequests, acq>>

\* CachedResponse leaving the rejected entry in the cache
CachedResponseNoEvict(c) ==
  /\ call[c].pc = "cachedSend"
  /\ \E r \in StatusResponses(c, 1) :
       call' = [call EXCEPT ![c] =
         Heard(IF r.status = NetworkError THEN Failed(c, "network")
               ELSE IF ~isUnauthorized(r) THEN Returned(c, r)
               ELSE [Send(c, NoToken) EXCEPT !.pc = "bareSend"], r)]
  /\ UNCHANGED <<cfg, now, tokenCache, pendingTokenRequests, acq>>

\* the response to the request sent with the cached token (lines 69-81)
CachedResponse(c) ==
  /\ call[c].pc = "cachedSend"
  /\ \E r \in StatusResponses(c, 1) :
       IF r.status = NetworkError
       THEN /\ call' = [call EXCEPT ![c] = Heard(Failed(c, "network"), r)]
            /\ UNCHANGED tokenCache
       ELSE IF ~isUnauthorized(r)
       THEN /\ call' = [call EXCEPT ![c] = Heard(Returned(c, r), r)]
            /\ UNCHANGED tokenCache
       ELSE /\ tokenCache' = CacheDelete(getResourceUrl(call[c].url))
            /\ call' = [call EXCEPT ![c] =
                 Heard([Send(c, NoToken) EXCEPT !.pc = "bareSend"], r)]
  /\ UNCHANGED <<cfg, now, pendingTokenRequests, acq>>

\* HasPending without the look at the pending map
HasPendingNever(k) == FALSE

\* pendingTokenRequests.get(resourceUrl) is defined
HasPending(k) == pendingTokenRequests[k] # NoPromise

\* performTokenAcquisition up to its first await: fetchFn(metadataUrl) is sent
StartAcquisition(c, k, metadataUrl, scope) ==
  [NoAcq EXCEPT !.st = "prm", !.key = k, !.metadataUrl = metadataUrl,
                !.scope = scope, !.calls = <<"prm">>]

\* the call awaits acquireAccessToken(resourceUrl, metadataUrl, scope),
\* called on a 401 with a WWW-Authenticate value of the given kind
Awaiting(c, p, metadataUrl, scope, kind) ==
  [call[c] EXCEPT !.pc = "awaitToken", !.awaiting = p, !.examined = kind,
                  !.got = Append(@, StatusUnauthorized),
                  !.own = IF p = c THEN NoOwn
                          ELSE [metadataUrl |-> metadataUrl, scope |-> scope]]

\* acquireAccessToken where a joining caller's arguments replace those of the
\* acquisition in flight
acquireAccessTokenLastWins(c, k, metadataUrl, scope, kind) ==
  IF HasPending(k)
  THEN /\ call' = [call EXCEPT ![c] =
                     Awaiting(c, pendingTokenRequests[k], metadataUrl, scope, kind)]
       /\ acq' = [acq EXCEPT ![pendingTokenRequests[k]] =
                    [@ EXCEPT !.metadataUrl = IF @ = <<>> THEN @ ELSE metadataUrl,
                              !.scope = IF acq[pendingTokenRequests[k]].metadataUrl = <<>>
                                        THEN @ ELSE scope]]
       /\ UNCHANGED pendingTokenRequests
  ELSE /\ acq' = [acq EXCEPT ![c] = StartAcquisition(c, k, metadataUrl, scope)]
       /\ pendingTokenRequests' = [pendingTokenRequests EXCEPT ![k] = c]
       /\ call' = [call EXCEPT ![c] = Awaiting(c, c, metadataUrl, scope, kind)]

\* acquireAccessToken up to its await (lines 141-152)
acquireAccessToken(c, k, metadataUrl, scope, kind) ==
  IF HasPending(k)
  THEN /\ call' = [call EXCEPT ![c] =
                     Awaiting(c, pendingTokenRequests[k], metadataUrl, scope, kind)]
       /\ UNCHANGED <<pendingTokenRequests, acq>>
  ELSE /\ acq' = [acq EXCEPT ![c] = StartAcquisition(c, k, metadataUrl, scope)]
       /\ pendingTokenRequests' = [pendingTokenRequests EXCEPT ![k] = c]
       /\ call' = [call EXCEPT ![c] = Awaiting(c, c, metadataUrl, scope, kind)]

\* ChallengeVerdict throwing where no Bearer challenge is present
ChallengeVerdictThrows(r) ==
  IF ~Truthy(r.hdr) THEN "throw"
  ELSE IF ParsedHeaders[r.hdr.v].scheme # H_Bearer THEN "throw"
  ELSE IF ~Truthy(ParsedHeaders[r.hdr.v].resource_metadata) THEN "throw"
  ELSE "acquire"

\* ChallengeVerdict without the check of resource_metadata
ChallengeVerdictNoCheck(r) ==
  IF ~Truthy(r.hdr) THEN "return"
  ELSE IF ParsedHeaders[r.hdr.v].scheme # H_Bearer THEN "return"
  ELSE "acquire"

\* what handleUnauthorized does with the 401 (lines 100-116)
ChallengeVerdict(r) ==
  IF ~Truthy(r.hdr) THEN "return"
  ELSE IF ParsedHeaders[r.hdr.v].scheme # H_Bearer THEN "return"
  ELSE IF ~Truthy(ParsedHeaders[r.hdr.v].resource_metadata) THEN "throw"
  ELSE "acquire"

\* handleUnauthorized up to its await
handleUnauthorized(c, r) ==
  LET v == ChallengeVerdict(r)
      challenge == IF r.hdr.def THEN ParsedHeaders[r.hdr.v] ELSE EmptyChallenge
  IN IF v = "return"
     THEN /\ call' = [call EXCEPT ![c] = Heard(Examined(Returned(c, r), r), r)]
          /\ UNCHANGED <<pendingTokenRequests, acq>>
     ELSE IF v = "throw"
     THEN /\ call' = [call EXCEPT ![c] =
                        Heard(Examined(Failed(c, "missing resource_metadata"), r), r)]
          /\ UNCHANGED <<pendingTokenRequests, acq>>
     ELSE acquireAccessToken(c, getResourceUrl(call[c].url),
                             IF challenge.resource_metadata.def
                             THEN challenge.resource_metadata.v ELSE <<>>,
                             challenge.scope,
                             HeaderKind(r.hdr))

\* the response to the request sent without a token (lines 81-89), a 401
\* carrying one of the WWW-Authenticate values H
BareResponseWith(c, H) ==
  /\ call[c].pc = "bareSend"
  /\ \E r \in TargetResponsesWith(c, Len(call[c].reqs), H) :
       IF r.status = NetworkError
       THEN /\ call' = [call EXCEPT ![c] = Heard(Failed(c, "network"), r)]
            /\ UNCHANGED <<pendingTokenRequests, acq>>
       ELSE IF ~isUnauthorized(r)
       THEN /\ call' = [call EXCEPT ![c] = Heard(Returned(c, r), r)]
            /\ UNCHANGED <<pendingTokenRequests, acq>>
       ELSE handleUnauthorized(c, r)
  /\ UNCHANGED <<cfg, now, tokenCache>>

BareResponse(c) == BareResponseWith(c, WwwAuthenticateValues)

----------------------------------------------------------------------------
(* performTokenAcquisition: one action per awaited reply *)

\* the promise settles: the locals of the async functions are gone
Locals(r) ==
  [r EXCEPT !.metadataUrl = <<>>, !.scope = Undef, !.issuer = "",
            !.tokenEndpoint = NoUrl, !.idJag = NoToken,
            !.asmIssuer = "", !.audience = ""]

Reject(a, e) == Locals([acq[a] EXCEPT !.st = "rejected", !.error = e])

Fulfil(r) == Locals([r EXCEPT !.st = "fulfilled"])

Advance(a, st, made) == [acq[a] EXCEPT !.st = st, !.calls = @ \o made]

\* the reply consumed by the step is kept as an observation
Got(rec, r) == [rec EXCEPT !.reply = r]

\* fetchProtectedResourceMetadata returns, a non-2xx reply with a body of B;
\* lines 173-183
PrmResponseWith(a, B) ==
  /\ acq[a].st = "prm"
  /\ \E st \in UpstreamStatuses, servers \in AuthorizationServersValues, b \in B :
       acq' = [acq EXCEPT ![a] =
         IF ~IsOk(st)
         THEN Got(Reject(a, "Failed to fetch protected resource metadata: "
                              \o extractOAuthError(st, b)),
                  UpstreamReply(st, b))
         ELSE Got(IF ~servers.def \/ Len(servers.v) = 0
                  THEN Reject(a, "No authorization servers found in protected resource metadata")
                  ELSE [Advance(a, "asm1", <<"asm1">>) EXCEPT
                          !.issuer = FirstServer(servers.v), !.asmIssuer = FirstServer(servers.v)],
                  [UpstreamReply(st, JsonBody) EXCEPT !.servers = servers])]
  /\ UNCHANGED <<cfg, now, tokenCache, pendingTokenRequests, call>>

PrmResponse(a) == PrmResponseWith(a, ErrorBodies)

\* lines 185-190 and 237: the metadata document is checked, getIdToken is called
AfterDiscovery(a, endpoint) ==
  IF endpoint = NoUrl
  THEN Reject(a, "Authorization server metadata missing token_endpoint")
  ELSE [Advance(a, "idToken", <<"getIdToken">>) EXCEPT !.tokenEndpoint = endpoint]

\* a reply to a discovery request: a network error, or a status with a body;
\* a 2xx reply carries a metadata document, or a body of J that is not JSON
DiscoveryReplies(B, J) ==
  {UpstreamReply(NetworkError, NotJsonBody)}
    \cup {UpstreamReply(st, b) : st \in {x \in DiscoveryStatuses : x # NetworkError /\ ~IsOk(x)},
                                 b \in B}
    \cup {[UpstreamReply(st, JsonBody) EXCEPT !.endpoint = e] :
            st \in {x \in DiscoveryStatuses : IsOk(x)}, e \in TokenEndpointValues}
    \cup {UpstreamReply(st, b) : st \in {x \in DiscoveryStatuses : IsOk(x)}, b \in J}

\* DiscoverySucceeds without the test of response.ok
DiscoverySucceedsAnyStatus(r) == r.status # NetworkError /\ r.body.json

\* the try block of a discovery attempt returns: response.ok and response.json() resolved
DiscoverySucceeds(r) == r.status # NetworkError /\ IsOk(r.status) /\ r.body.json

\* discoverAuthorizationServerMetadata: /.well-known/oauth-authorization-server answers
AsmResponse1With(a, B, J) ==
  /\ acq[a].st = "asm1"
  /\ \E r \in DiscoveryReplies(B, J) :
       acq' = [acq EXCEPT ![a] =
         Got(IF DiscoverySucceeds(r) THEN AfterDiscovery(a, r.endpoint)
             ELSE Advance(a, "asm2", <<"asm2">>),
             r)]
  /\ UNCHANGED <<cfg, now, tokenCache, pendingTokenRequests, call>>

AsmResponse1(a) == AsmResponse1With(a, ErrorBodies, {})

\* discoverAuthorizationServerMetadata: /.well-known/openid-configuration answers
AsmResponse2With(a, B, J) ==
  /\ acq[a].st = "asm2"
  /\ \E r \in DiscoveryReplies(B, J) :
       acq' = [acq EXCEPT ![a] =
         Got(IF DiscoverySucceeds(r) THEN AfterDiscovery(a, r.endpoint)
             ELSE Reject(a, "Failed to discover authorization server metadata for "
                              \o acq[a].asmIssuer),
             r)]
  /\ UNCHANGED <<cfg, now, tokenCache, pendingTokenRequests, call>>

AsmResponse2(a) == AsmResponse2With(a, ErrorBodies, {})

\* IdTokenReturn going on to the token exchange whatever getIdToken did
IdTokenReturnAlways(a) ==
  /\ acq[a].st = "idToken"
  /\ \E ok \in BOOLEAN :
       acq' = [acq EXCEPT ![a] =
         Got([Advance(a, "idp", <<"idp">>) EXCEPT !.audience = acq[a].issuer],
             [NoReply EXCEPT !.idToken = ok])]
  /\ UNCHANGED <<cfg, now, tokenCache, pendingTokenRequests, call>>

\* config.getIdToken() settles; lines 237-262
IdTokenReturn(a) ==
  /\ acq[a].st = "idToken"
  /\ \E ok \in BOOLEAN :
       acq' = [acq EXCEPT ![a] =
         Got(IF ok THEN [Advance(a, "idp", <<"idp">>) EXCEPT !.audience = acq[a].issuer]
             ELSE Reject(a, "getIdToken failed"),
             [NoReply EXCEPT !.idToken = ok])]
  /\ UNCHANGED <<cfg, now, tokenCache, pendingTokenRequests, call>>

\* IdpResponse without the check of issued_token_type
IdpResponseNoTypeCheck(a) ==
  /\ acq[a].st = "idp"
  /\ \E st \in UpstreamStatuses, tok \in {IdJag(a), OtherToken(a)}, b \in ErrorBodies :
       acq' = [acq EXCEPT ![a] =
         IF ~IsOk(st)
         THEN Got(Reject(a, "Token exchange failed: " \o extractOAuthError(st, b)),
                  UpstreamReply(st, b))
         ELSE Got([Advance(a, "grant", <<"grant">>) EXCEPT !.idJag = tok],
                  [UpstreamReply(st, JsonBody) EXCEPT !.tokenType = IssuedTokenType(tok)])]
  /\ UNCHANGED <<cfg, now, tokenCache, pendingTokenRequests, call>>

\* the identity provider answers the token exchange; lines 264-277, 289-303
IdpResponseWith(a, B) ==
  /\ acq[a].st = "idp"
  /\ \E st \in UpstreamStatuses, tok \in {IdJag(a), OtherToken(a)}, b \in B :
       acq' = [acq EXCEPT ![a] =
         IF ~IsOk(st)
         THEN Got(Reject(a, "Token exchange failed: " \o extractOAuthError(st, b)),
                  UpstreamReply(st, b))
         ELSE Got(IF IssuedTokenType(tok) # IdJagTokenType
                  THEN Reject(a, "Unexpected token type: " \o IssuedTokenType(tok))
                  ELSE [Advance(a, "grant", <<"grant">>) EXCEPT !.idJag = tok],
                  [UpstreamReply(st, JsonBody) EXCEPT !.tokenType = IssuedTokenType(tok)])]
  /\ UNCHANGED <<cfg, now, tokenCache, pendingTokenRequests, call>>

IdpResponse(a) == IdpResponseWith(a, ErrorBodies)

\* GrantedToken taking the assertion for the access token
GrantedTokenAssertion(a) == acq[a].idJag

\* tokenResponse.access_token of the JWT bearer grant response (lines 310, 317, 326)
GrantedToken(a) == AccessToken(a)

\* the authorization server answers the JWT bearer grant, with an expires_in
\* of E, or with a non-2xx reply with a body of B; lines 305-326
GrantResponseWith(a, E, B) ==
  /\ acq[a].st = "grant"
  /\ \E st \in UpstreamStatuses, e \in E, b \in B :
       IF ~IsOk(st)
       THEN /\ acq' = [acq EXCEPT ![a] =
                 Got(Reject(a, "JWT bearer grant failed: " \o extractOAuthError(st, b)),
                     UpstreamReply(st, b))]
            /\ UNCHANGED tokenCache
       ELSE /\ tokenCache' = [tokenCache EXCEPT ![CacheKey(a)] =
                 [token |-> GrantedToken(a), expiresAt |-> ExpiresAt(e),
                  storedAt |-> now, expiresIn |-> e]]
            /\ acq' = [acq EXCEPT ![a] =
                 Got(IF cfg.onAccessTokenReceived
                     THEN [Advance(a, "hook", <<"store", "hook">>) EXCEPT !.token = GrantedToken(a)]
                     ELSE Fulfil([Advance(a, "hook", <<"store">>) EXCEPT !.token = GrantedToken(a)]),
                     UpstreamReply(st, JsonBody))]
  /\ UNCHANGED <<cfg, now, pendingTokenRequests, call>>

\* GrantResponse invoking onAccessTokenReceived before the token is stored
GrantResponseHookFirst(a) ==
  /\ acq[a].st = "grant"
  /\ \E st \in UpstreamStatuses, e \in ExpiresInValues, b \in ErrorBodies :
       IF ~IsOk(st)
       THEN /\ acq' = [acq EXCEPT ![a] =
                 Got(Reject(a, "JWT bearer grant failed: " \o extractOAuthError(st, b)),
                     UpstreamReply(st, b))]
            /\ UNCHANGED tokenCache
       ELSE /\ tokenCache' = IF cfg.onAccessTokenReceived THEN tokenCache
                             ELSE [tokenCache EXCEPT ![CacheKey(a)] =
                                     [token |-> GrantedToken(a), expiresAt |-> ExpiresAt(e),
                                      storedAt |-> now, expiresIn |-> e]]
            /\ acq' = [acq EXCEPT ![a] =
                 Got(IF cfg.onAccessTokenReceived
                     THEN [Advance(a, "hook", <<"hook">>) EXCEPT !.token = GrantedToken(a)]
                     ELSE Fulfil([Advance(a, "hook", <<"store">>) EXCEPT !.token = GrantedToken(a)]),
                     UpstreamReply(st, JsonBody))]
  /\ UNCHANGED <<cfg, now, pendingTokenRequests, call>>

\* GrantResponse storing the token of the response before response.ok is tested
GrantResponseStoreFirst(a) ==
  /\ acq[a].st = "grant"
  /\ \E st \in UpstreamStatuses, e \in ExpiresInValues, b \in ErrorBodies :
       /\ tokenCache' = [tokenCache EXCEPT ![CacheKey(a)] =
            [token |-> GrantedToken(a), expiresAt |-> ExpiresAt(e),
             storedAt |-> now, expiresIn |-> e]]
       /\ acq' = [acq EXCEPT ![a] =
            IF ~IsOk(st)
            THEN Got(Reject(a, "JWT bearer grant failed: " \o extractOAuthError(st, b)),
                     UpstreamReply(st, b))
            ELSE Got(IF cfg.onAccessTokenReceived
                     THEN [Advance(a, "hook", <<"store", "hook">>) EXCEPT !.token = GrantedToken(a)]
                     ELSE Fulfil([Advance(a, "hook", <<"store">>) EXCEPT !.token = GrantedToken(a)]),
                     UpstreamReply(st, JsonBody))]
  /\ UNCHANGED <<cfg, now, pendingTokenRequests, call>>

GrantResponse(a) == GrantResponseWith(a, ExpiresInValues, ErrorBodies)

\* the outcome of performJwtBearerGrant once config.onAccessTokenReceived has settled
AfterHook(a, ok) ==
  IF ok THEN Fulfil(acq[a])
  ELSE [Reject(a, "onAccessTokenReceived failed") EXCEPT !.token = NoToken]

\* config.onAccessTokenReceived(tokenResponse) settles; lines 322-326
HookReturn(a) ==
  /\ acq[a].st = "hook"
  /\ \E ok \in BOOLEAN : acq' = [acq EXCEPT ![a] = AfterHook(a, ok)]
  /\ UNCHANGED <<cfg, now, tokenCache, pendingTokenRequests, call>>

\* Settled where a rejection settles nothing
SettledFulfilled(a) == acq[a].st = "fulfilled"

Settled(a) == acq[a].st \in {"fulfilled", "rejected"}

\* Resume retrying whatever the outcome of the acquisition
ResumeAlwaysRetry(c, a) == [Send(c, acq[a].token) EXCEPT !.pc = "retrySend", !.own = NoOwn]

\* lines 122-124 once acquireAccessToken has settled: retry, or propagate the error
Resume(c, a) ==
  IF acq[a].st = "fulfilled"
  THEN [Send(c, acq[a].token) EXCEPT !.pc = "retrySend", !.own = NoOwn]
  ELSE [Failed(c, acq[a].error) EXCEPT !.own = NoOwn]

\* InitiatorResume deleting the pending entry after a success only (no finally)
InitiatorResumeNoFinally(c) ==
  /\ call[c].pc = "awaitToken"
  /\ call[c].awaiting = c
  /\ Settled(c)
  /\ pendingTokenRequests' =
       IF acq[c].st = "fulfilled"
       THEN [pendingTokenRequests EXCEPT ![acq[c].key] = NoPromise]
       ELSE pendingTokenRequests
  /\ acq' = [acq EXCEPT ![c] = [@ EXCEPT !.released = TRUE]]
  /\ call' = [call EXCEPT ![c] = Resume(c, c)]
  /\ UNCHANGED <<cfg, now, tokenCache>>

\* the caller that started the acquisition resumes from await tokenPromise:
\* finally deletes the pending entry (lines 151-156), then lines 122-124
InitiatorResume(c) ==
  /\ call[c].pc = "awaitToken"
  /\ call[c].awaiting = c
  /\ Settled(c)
  /\ pendingTokenRequests' = [pendingTokenRequests EXCEPT ![acq[c].key] = NoPromise]
  /\ acq' = [acq EXCEPT ![c] = [@ EXCEPT !.released = TRUE]]
  /\ call' = [call EXCEPT ![c] = Resume(c, c)]
  /\ UNCHANGED <<cfg, now, tokenCache>>

\* JoinerResume with no order between the reactions on the promise
JoinerResumeUnordered(c) ==
  /\ call[c].pc = "awaitToken"
  /\ call[c].awaiting # c
  /\ Settled(call[c].awaiting)
  /\ call' = [call EXCEPT ![c] = Resume(c, call[c].awaiting)]
  /\ UNCHANGED <<cfg, now, tokenCache, pendingTokenRequests, acq>>

\* a caller that returned the pending promise resumes; its reaction was
\* registered on the promise after the initiator's, so it runs after it
JoinerResume(c) ==
  /\ call[c].pc = "awaitToken"
  /\ call[c].awaiting # c
  /\ Settled(call[c].awaiting)
  /\ acq[call[c].awaiting].released
  /\ call' = [call EXCEPT ![c] = Resume(c, call[c].awaiting)]
  /\ UNCHANGED <<cfg, now, tokenCache, pendingTokenRequests, acq>>

\* RetryResponse handling a 401 to the retry like the first 401
RetryResponseLoop(c) ==
  /\ call[c].pc = "retrySend"
  /\ \E r \in TargetResponses(c, Len(call[c].reqs)) :
       IF r.status = NetworkError
       THEN /\ call' = [call EXCEPT ![c] = Heard(Failed(c, "network"), r)]
            /\ UNCHANGED <<pendingTokenRequests, acq>>
       ELSE IF ~isUnauthorized(r)
       THEN /\ call' = [call EXCEPT ![c] = Heard(Returned(c, r), r)]
            /\ UNCHANGED <<pendingTokenRequests, acq>>
       ELSE handleUnauthorized(c, r)
  /\ UNCHANGED <<cfg, now, tokenCache>>

\* the response to the retried request is returned as it is (line 124)
RetryResponse(c) ==
  /\ call[c].pc = "retrySend"
  /\ \E r \in StatusResponses(c, Len(call[c].reqs)) :
       call' = [call EXCEPT ![c] =
         Heard(IF r.status = NetworkError THEN Failed(c, "network") ELSE Returned(c, r), r)]
  /\ UNCHANGED <<cfg, now, tokenCache, pendingTokenRequests, acq>>

\* time passes; the code reads the clock only against stored expiry times,
\* so the clock is let run once something is stored
Tick ==
  /\ now < MaxTicks * TickMs
  /\ \E o \in Origins : tokenCache[o] # NoEntry
  /\ now' = now + TickMs
  /\ UNCHANGED <<cfg, tokenCache, pendingTokenRequests, call, acq>>

Next ==
  \/ \E c \in Calls : Fetch(c) /\ UNCHANGED <<parsing, cleared>>
  \/ \E c \in Calls : ExtLookupReturn(c) /\ UNCHANGED <<parsing, cleared>>
  \/ \E c \in Calls : CachedResponse(c) /\ UNCHANGED <<parsing, cleared>>
  \/ \E c \in Calls : BareResponse(c) /\ UNCHANGED <<parsing, cleared>>
  \/ \E a \in Calls : PrmResponse(a) /\ UNCHANGED <<parsing, cleared>>
  \/ \E a \in Calls : AsmResponse1(a) /\ UNCHANGED <<parsing, cleared>>
  \/ \E a \in Calls : AsmResponse2(a) /\ UNCHANGED <<parsing, cleared>>
  \/ \E a \in Calls : IdTokenReturn(a) /\ UNCHANGED <<parsing, cleared>>
  \/ \E a \in Calls : IdpResponse(a) /\ UNCHANGED <<parsing, cleared>>
  \/ \E a \in Calls : GrantResponse(a) /\ UNCHANGED <<parsing, cleared>>
  \/ \E a \in Calls : HookReturn(a) /\ UNCHANGED <<parsing, cleared>>
  \/ \E c \in Calls : InitiatorResume(c) /\ UNCHANGED <<parsing, cleared>>
  \/ \E c \in Calls : JoinerResume(c) /\ UNCHANGED <<parsing, cleared>>
  \/ \E c \in Calls : RetryResponse(c) /\ UNCHANGED <<parsing, cleared>>
  \/ Tick /\ UNCHANGED <<parsing, cleared>>

Spec == Init /\ [][Next]_vars

----------------------------------------------------------------------------
(* The token cache against the clock: the fetch calls are made one after    *)
(* the other, the access token responses carry more expires_in values, and  *)
(* the clock is read at instants around the expiry times.                   *)

\* expires_in values of an access token response: omitted, zero, shorter
\* than the buffer, two minutes, one hour
ExpiryExpiresInValues == {NoNumber, Num(0), Num(30), Num(120), Num(3600)}

\* instants at which the first token may be stored
StoreTimes == {0, MsPerSecond}

\* the values of Date.now(): the store times, and one millisecond before, at
\* and after the expiry time of a one-hour token stored at one of them
ClockPoints ==
  StoreTimes
    \cup {t + DefaultExpiresIn * MsPerSecond - SkewBufferMs + d :
            t \in StoreTimes, d \in {-1, 0, 1}}

CacheEmpty == \A o \in Origins : tokenCache[o] = NoEntry

\* call c may be issued: the calls before it have returned or thrown, and
\* the last of them left something in the cache (after a call that left the
\* cache empty the next call would run as the first one did)
InTurn(c) ==
  IF c = 1 THEN TRUE ELSE call[c - 1].pc \in {"Returned", "Failed"} /\ ~CacheEmpty

\* a step that reads Date.now() is next: the cache store of line 314, or the
\* lookup of line 346
ReadsClockNext ==
  \/ \E a \in Calls : acq[a].st = "grant"
  \/ \E c \in Calls : call[c].pc = "extLookup"
  \/ \E c \in Calls : call[c].pc = "idle" /\ InTurn(c)

\* time passes before a step that reads the clock; while nothing is stored
\* the clock matters to the store alone
Elapse ==
  /\ ReadsClockNext
  /\ \E t \in (IF CacheEmpty THEN StoreTimes ELSE ClockPoints) : t > now /\ now' = t
  /\ UNCHANGED <<cfg, tokenCache, pendingTokenRequests, call, acq>>

\* fetch(input), called once the previous call has returned or thrown
FetchInTurn(c) == InTurn(c) /\ Fetch(c)

NextExpiry ==
  \/ \E c \in Calls : FetchInTurn(c) /\ UNCHANGED <<parsing, cleared>>
  \/ \E c \in Calls : ExtLookupReturn(c) /\ UNCHANGED <<parsing, cleared>>
  \/ \E c \in Calls : CachedResponse(c) /\ UNCHANGED <<parsing, cleared>>
  \/ \E c \in Calls : BareResponse(c) /\ UNCHANGED <<parsing, cleared>>
  \/ \E a \in Calls : PrmResponse(a) /\ UNCHANGED <<parsing, cleared>>
  \/ \E a \in Calls : AsmResponse1(a) /\ UNCHANGED <<parsing, cleared>>
  \/ \E a \in Calls : AsmResponse2(a) /\ UNCHANGED <<parsing, cleared>>
  \/ \E a \in Calls : IdTokenReturn(a) /\ UNCHANGED <<parsing, cleared>>
  \/ \E a \in Calls : IdpResponse(a) /\ UNCHANGED <<parsing, cleared>>
  \/ \E a \in Calls : GrantResponseWith(a, ExpiryExpiresInValues, ErrorBodies) /\ UNCHANGED <<parsing, cleared>>
  \/ \E a \in Calls : HookReturn(a) /\ UNCHANGED <<parsing, cleared>>
  \/ \E c \in Calls : InitiatorResume(c) /\ UNCHANGED <<parsing, cleared>>
  \/ \E c \in Calls : RetryResponse(c) /\ UNCHANGED <<parsing, cleared>>
  \/ Elapse /\ UNCHANGED <<parsing, cleared>>

ExpirySpec == Init /\ [][NextExpiry]_vars

----------------------------------------------------------------------------
(* The pipeline against its upstream replies, and the two clear methods:    *)
(* the fetch calls are made one after the other, a non-2xx reply carries    *)
(* any of the error bodies, a 2xx discovery reply may carry a body that is  *)
(* not JSON, and the cache may be cleared at any time.                      *)

\* the acquisitions in flight now are noted
MetInFlight == cleared \cup {a \in Calls : acq[a].st # "none" /\ ~Settled(a)}

\* clearTokenForResource clearing the whole cache
clearTokenForResourceAll(k) ==
  /\ tokenCache' = [o \in Origins |-> NoEntry]
  /\ UNCHANGED <<cfg, now, pendingTokenRequests, call, acq, cleared>>

\* clearTokenCache clearing the pending map as well
clearTokenCacheAndPending ==
  /\ tokenCache' = [o \in Origins |-> NoEntry]
  /\ pendingTokenRequests' = [o \in Origins |-> NoPromise]
  /\ cleared' = MetInFlight
  /\ UNCHANGED <<cfg, now, call, acq>>

\* clearTokenCache(): this.tokenCache.clear()
clearTokenCache ==
  /\ tokenCache' = [o \in Origins |-> NoEntry]
  /\ cleared' = MetInFlight
  /\ UNCHANGED <<cfg, now, pendingTokenRequests, call, acq>>

\* clearTokenForResource(resourceUrl): this.tokenCache.delete(resourceUrl)
clearTokenForResource(k) ==
  /\ tokenCache' = CacheDelete(k)
  /\ UNCHANGED <<cfg, now, pendingTokenRequests, call, acq, cleared>>

\* 2xx discovery bodies on which response.json() rejects
BadDiscoveryBodies == {NotJsonBody}

NextPipeline ==
  \/ \E c \in Calls : FetchInTurn(c) /\ UNCHANGED <<parsing, cleared>>
  \/ \E c \in Calls : ExtLookupReturn(c) /\ UNCHANGED <<parsing, cleared>>
  \/ \E c \in Calls : CachedResponse(c) /\ UNCHANGED <<parsing, cleared>>
  \/ \E c \in Calls : BareResponse(c) /\ UNCHANGED <<parsing, cleared>>
  \/ \E a \in Calls : PrmResponseWith(a, AllErrorBodies) /\ UNCHANGED <<parsing, cleared>>
  \/ \E a \in Calls : AsmResponse1With(a, AllErrorBodies, BadDiscoveryBodies) /\ UNCHANGED <<parsing, cleared>>
  \/ \E a \in Calls : AsmResponse2With(a, AllErrorBodies, BadDiscoveryBodies) /\ UNCHANGED <<parsing, cleared>>
  \/ \E a \in Calls : IdTokenReturn(a) /\ UNCHANGED <<parsing, cleared>>
  \/ \E a \in Calls : IdpResponseWith(a, AllErrorBodies) /\ UNCHANGED <<parsing, cleared>>
  \/ \E a \in Calls : GrantResponseWith(a, ExpiresInValues, AllErrorBodies) /\ UNCHANGED <<parsing, cleared>>
  \/ \E a \in Calls : HookReturn(a) /\ UNCHANGED <<parsing, cleared>>
  \/ \E c \in Calls : InitiatorResume(c) /\ UNCHANGED <<parsing, cleared>>
  \/ \E c \in Calls : RetryResponse(c) /\ UNCHANGED <<parsing, cleared>>
  \/ clearTokenCache /\ UNCHANGED parsing
  \/ \E k \in Origins : clearTokenForResource(k) /\ UNCHANGED parsing

PipelineSpec == Init /\ [][NextPipeline]_vars

----------------------------------------------------------------------------
(* Observations used by the properties *)

Count(seq, x) == Cardinality({i \in 1 .. Len(seq) : seq[i] = x})

Started(a) == acq[a].st # "none"

InFlight(a) == Started(a) /\ ~Settled(a)

Terminal(c) == call[c].pc \in {"Returned", "Failed"}

KeyOf(c) == getResourceUrl(call[c].url)

\* the calls that reached acquireAccessToken for key k
Challenged(k) == {c \in Calls : call[c].awaiting # NoPromise /\ KeyOf(c) = k}

\* the acquisitions started for key k
Acquisitions(k) == {a \in Calls : Started(a) /\ acq[a].key = k}

RECURSIVE SumCalls(_, _)
SumCalls(S, x) ==
  IF S = {} THEN 0
  ELSE LET a == CHOOSE b \in S : TRUE
       IN Count(acq[a].calls, x) + SumCalls(S \ {a}, x)

\* identity-to-assertion and assertion-to-access-token exchange calls made for key k
IdpCalls(k) == SumCalls(Acquisitions(k), "idp")
GrantCalls(k) == SumCalls(Acquisitions(k), "grant")

----------------------------------------------------------------------------
(* C1: for every resource key at most one token acquisition pipeline is in  *)
(* flight at any time; the pipeline in flight is the one registered in the  *)
(* pending map; and a caller that found a pending entry awaits that entry   *)
(* and has started no discovery or exchange call of its own.                *)
C1_SingleFlight ==
  /\ \A a, b \in Calls :
       (a # b /\ InFlight(a) /\ InFlight(b)) => acq[a].key # acq[b].key
  /\ \A a \in Calls : InFlight(a) => pendingTokenRequests[acq[a].key] = a
  /\ \A c \in Calls :
       (call[c].awaiting # NoPromise /\ call[c].awaiting # c)
         => (~Started(c) /\ Started(call[c].awaiting)
               /\ acq[call[c].awaiting].key = KeyOf(c))

\* a second caller for the same key has joined an acquisition that is in flight
C1_Witness ==
  \E c \in Calls :
    /\ call[c].pc = "awaitToken"
    /\ call[c].awaiting # c
    /\ InFlight(call[c].awaiting)
    /\ Count(acq[call[c].awaiting].calls, "idp") = 1

(* C2: when an acquisition started for resource key K succeeds, the new     *)
(* access token is stored in the token cache under key K, whatever the      *)
(* origin of the token endpoint.  (Stated for the step that stores it.)     *)
C2_StoredUnderResourceKey ==
  [][\A a \in Calls :
       (acq[a].st = "grant" /\ acq'[a].token # NoToken)
         => tokenCache'[acq[a].key].token = acq'[a].token]_vars

(* C3, as claimed: every top-level fetch call sends at most two requests    *)
(* to the target resource.                                                  *)
C3_AtMostTwoRequests == \A c \in Calls : Len(call[c].reqs) <= 2

(* C3, amended: a fetch call sends at most three requests to the target: at *)
(* most two when the lookup returned no token (one bare, one retry), and a  *)
(* third only when a cached token was rejected with 401 (the request with   *)
(* the cached token, the bare request, one retry).                          *)
C3_AtMostThreeRequests ==
  \A c \in Calls :
    /\ Len(call[c].reqs) <= 3
    /\ (Len(call[c].reqs) >= 1 /\ call[c].reqs[1] = NoToken) => Len(call[c].reqs) <= 2
    /\ Len(call[c].reqs) = 3
         => /\ call[c].reqs[1] # NoToken
            /\ call[c].reqs[2] = NoToken
            /\ call[c].reqs[3] # NoToken

\* a call whose cached token was rejected has sent its third request
C3_Witness ==
  \E c \in Calls :
    /\ Len(call[c].reqs) = 3
    /\ call[c].reqs[1].kind = "access"
    /\ call[c].pc = "Returned"

(* C4: a failure of onAccessTokenReceived after the access token exchange   *)
(* has succeeded does not fail the acquisition: once the hook has been      *)
(* invoked the acquisition is never rejected and no caller awaiting it      *)
(* fails with the hook's error.                                             *)
C4_HookFailureHarmless ==
  \A a \in Calls :
    Count(acq[a].calls, "hook") > 0
      => /\ acq[a].st # "rejected"
         /\ \A c \in Calls :
              call[c].awaiting = a => call[c].error # "onAccessTokenReceived failed"

\* all the calls to key k that reached acquireAccessToken, at least two of
\* them, one issued while another had no response yet
Simultaneous(k) ==
  /\ Cardinality(Challenged(k)) >= 2
  /\ \E c \in Challenged(k) : call[c].overlap

(* C5, as claimed: N >= 2 simultaneous fetch calls for one resource key,    *)
(* each answered by a 401 Bearer challenge, make exactly one identity-to-   *)
(* assertion exchange call and one assertion-to-access-token exchange call  *)
(* in total, whatever the order of the responses: never more than one of    *)
(* each, and one of each once the calls have returned.                      *)
C5_ExactlyOnePair ==
  \A k \in Origins :
    Simultaneous(k)
      => /\ IdpCalls(k) <= 1
         /\ GrantCalls(k) <= 1
         /\ (\A c \in Challenged(k) : call[c].pc = "Returned")
              => (IdpCalls(k) = 1 /\ GrantCalls(k) = 1)

\* every call that reached acquireAccessToken for k awaits the same promise
SharedByAll(k) ==
  \A c, d \in Challenged(k) : call[c].awaiting = call[d].awaiting

(* C5, amended: the calls whose 401 is handled while an acquisition for     *)
(* their key is pending share that acquisition: at most one acquisition per *)
(* key is unreleased at any time, an acquisition makes at most one identity *)
(* exchange call and no access token exchange call without it, and when all *)
(* the simultaneous calls share one acquisition there is at most one call   *)
(* of each kind, exactly one of each once the acquisition has succeeded.  A *)
(* call whose 401 is handled after the acquisition has settled starts a     *)
(* further acquisition, with exchange calls of its own.                     *)
C5_OnePairPerAcquisition ==
  \A k \in Origins :
    /\ Cardinality({a \in Acquisitions(k) : ~acq[a].released}) <= 1
    /\ \A a \in Acquisitions(k) :
         /\ Count(acq[a].calls, "idp") <= 1
         /\ Count(acq[a].calls, "grant") <= Count(acq[a].calls, "idp")
    /\ (Simultaneous(k) /\ SharedByAll(k))
         => /\ IdpCalls(k) <= 1
            /\ GrantCalls(k) <= 1
            /\ (\E a \in Acquisitions(k) : acq[a].st = "fulfilled")
                 => (IdpCalls(k) = 1 /\ GrantCalls(k) = 1)

\* two simultaneous calls have shared one successful acquisition and both retried
C5_Witness ==
  \E k \in Origins :
    /\ Simultaneous(k)
    /\ SharedByAll(k)
    /\ \A c \in Challenged(k) : call[c].pc = "Returned" /\ Len(call[c].reqs) = 2
    /\ IdpCalls(k) = 1
    /\ GrantCalls(k) = 1

(* C6: after a fetch call to resource key K has completed a successful     *)
(* acquisition, a later fetch call to K whose lookup happens while that     *)
(* token is cached and unexpired, and to which getCachedAccessToken gave    *)
(* nothing, attaches that token to its first request; and a first request   *)
(* sent with a cached token that is not answered 401 is followed by no      *)
(* discovery or exchange call.                                              *)
C6_SubsequentUsesCachedToken ==
  [][\A d \in Calls :
       /\ \A a \in Calls \ {d} :
            ( /\ call[d].reqs = <<>>
              /\ call'[d].reqs # <<>>
              /\ call'[d].reqs[1] # ExtToken
              /\ acq[a].st = "fulfilled"
              /\ call[a].pc = "Returned"
              /\ acq[a].key = getResourceUrl(call'[d].url)
              /\ \E o \in Origins : /\ tokenCache[o].token = acq[a].token
                                    /\ tokenCache[o].expiresAt > now )
              => call'[d].reqs[1] = acq[a].token
       /\ (call[d].pc = "cachedSend" /\ call'[d].pc = "Returned")
            => (acq'[d].st = "none" /\ call'[d].awaiting = NoPromise)]_vars

(* C7: on the 401 path with a successful acquisition the request is sent    *)
(* exactly once more, with the acquired access token, right after the bare  *)
(* request; the response to it is what the call returns, be it a success or *)
(* another 401; nothing is sent after it; and a call whose first request    *)
(* was bare has then sent exactly two requests to the target.               *)
C7_RetryOnce ==
  \A c \in Calls :
    LET a == call[c].awaiting
        n == Len(call[c].reqs)
    IN (a # NoPromise /\ call[c].pc # "awaitToken" /\ acq[a].st = "fulfilled")
         => /\ call[c].pc \in {"retrySend", "Returned", "Failed"}
            /\ n >= 2
            /\ call[c].reqs[n] = acq[a].token
            /\ acq[a].token.kind = "access"
            /\ call[c].reqs[n - 1] = NoToken
            /\ call[c].reqs[1] = NoToken => n = 2
            /\ call[c].pc = "Returned" => call[c].result.id = <<c, n>>
            /\ call[c].pc = "Failed" => call[c].error = "network"

\* the retried request was answered 401 and that 401 was returned, after two requests
C7_Witness ==
  \E c \in Calls :
    /\ call[c].pc = "Returned"
    /\ call[c].awaiting # NoPromise
    /\ isUnauthorized(call[c].result)
    /\ call[c].result.id = <<c, 2>>
    /\ call[c].reqs[2].kind = "access"

C9_MissingMetadataFails ==
  [][\A c \in Calls :
       /\ (call[c].examined = "" /\ call'[c].examined = "bearer-no-metadata")
            => /\ call'[c].pc = "Failed"
               /\ call'[c].error = "missing resource_metadata"
               /\ call'[c].reqs = call[c].reqs
               /\ call'[c].awaiting = NoPromise
               /\ acq' = acq
               /\ tokenCache' = tokenCache
               /\ pendingTokenRequests' = pendingTokenRequests
       /\ call[c].pc = "Failed" => call'[c] = call[c]]_vars

\* a call has failed on a Bearer challenge without resource_metadata
C9_Witness ==
  \E c \in Calls :
    /\ call[c].examined = "bearer-no-metadata"
    /\ call[c].pc = "Failed"
    /\ call[c].error = "missing resource_metadata"

(* C10: fetch throws an error when the 401 response has no WWW-Authenticate *)
(* header.                                                                  *)
C10_ThrowsOnMissingHeader ==
  \A c \in Calls : call[c].examined = "absent" => call[c].pc = "Failed"

\* the errors of metadata discovery, of the protocol checks and of the grants
AcquisitionErrors ==
  {"No authorization servers found in protected resource metadata",
   "Authorization server metadata missing token_endpoint",
   "getIdToken failed",
   "Unexpected token type: " \o IssuedTokenType(OtherToken(0))}
    \cup {"Failed to discover authorization server metadata for " \o i :
            i \in {AuthServer, AuthServer2}}
    \cup {p \o extractOAuthError(st, b) :
            p \in {"Failed to fetch protected resource metadata: ",
                   "Token exchange failed: ", "JWT bearer grant failed: "},
            st \in {x \in UpstreamStatuses : ~IsOk(x)}, b \in AllErrorBodies}

(* C11: when an acquisition is rejected by a discovery failure, a protocol  *)
(* violation or a grant failure, every caller that awaited it, the one that *)
(* started it and every one that joined it, fails with that same error once *)
(* it resumes and has sent no retry (its last request is the bare one); the *)
(* rejected acquisition makes no further outbound call, and an acquisition  *)
(* is started only by a call handling the 401 to its bare request, never by *)
(* the core on its own.                                                     *)
C11_FailurePropagates ==
  [][\A a \in Calls :
       /\ (acq'[a].st = "rejected" /\ acq'[a].error \in AcquisitionErrors)
            => \A c \in Calls :
                 (call'[c].awaiting = a /\ call'[c].pc # "awaitToken")
                   => /\ call'[c].pc = "Failed"
                      /\ call'[c].error = acq'[a].error
                      /\ call'[c].reqs[Len(call'[c].reqs)] = NoToken
                      /\ call'[c].result = NoResponse
       /\ acq[a].st = "rejected"
            => (acq'[a].st = "rejected" /\ acq'[a].calls = acq[a].calls
                  /\ acq'[a].error = acq[a].error)
       /\ (acq[a].st = "none" /\ acq'[a].st # "none")
            => (call[a].pc = "bareSend" /\ call'[a].awaiting = a)]_vars

\* the initiator and a joiner have both failed with the error of a failed grant
C11_Witness ==
  \E c, d \in Calls :
    /\ c # d
    /\ call[c].awaiting = c
    /\ call[d].awaiting = c
    /\ acq[c].st = "rejected"
    /\ acq[c].error = "JWT bearer grant failed: HTTP 400 Bad Request"
    /\ call[c].pc = "Failed"
    /\ call[d].pc = "Failed"
    /\ call[d].error = "JWT bearer grant failed: HTTP 400 Bad Request"

\* acquisition a is registered and the finally of acquireAccessToken has not run
Unreleased(a) == Started(a) /\ ~acq[a].released

(* C12: the pending entry of a resource key lasts exactly as long as one    *)
(* acquisition, from its registration to the finally that follows its       *)
(* settling: the map holds an entry for a key exactly when an acquisition   *)
(* for that key is registered and not yet released, and that entry is this  *)
(* acquisition; once the initiator has resumed from a settled acquisition,  *)
(* fulfilled or rejected, the entry is gone; a 401 handled for a key with   *)
(* no entry starts a fresh acquisition and registers it; and when no        *)
(* acquisition is unreleased the map is empty.                              *)
C12_PendingLifetime ==
  [][/\ \A k \in Origins :
          /\ pendingTokenRequests'[k] # NoPromise
               => LET a == pendingTokenRequests'[k]
                  IN acq'[a].st # "none" /\ ~acq'[a].released /\ acq'[a].key = k
          /\ \A a \in Calls :
               (Unreleased(a)' /\ acq'[a].key = k) => pendingTokenRequests'[k] = a
     /\ \A a \in Calls :
          /\ (Settled(a) /\ call[a].pc = "awaitToken" /\ call'[a].pc # "awaitToken")
               => (acq'[a].released /\ pendingTokenRequests'[acq[a].key] = NoPromise)
          /\ acq[a].released => acq'[a].released
     /\ \A c \in Calls :
          (call[c].pc = "bareSend" /\ call'[c].pc = "awaitToken"
             /\ pendingTokenRequests[KeyOf(c)] = NoPromise)
            => /\ call'[c].awaiting = c
               /\ acq'[c].st = "prm"
               /\ pendingTokenRequests'[KeyOf(c)] = c
     /\ (\A a \in Calls : ~Unreleased(a)')
          => \A k \in Origins : pendingTokenRequests'[k] = NoPromise]_vars

\* after a failed acquisition was released, a later 401 for the same key has
\* started a fresh acquisition, which is the one registered
C12_Witness ==
  \E a, b \in Calls :
    /\ a # b
    /\ acq[a].st = "rejected"
    /\ acq[a].released
    /\ acq[b].key = acq[a].key
    /\ InFlight(b)
    /\ pendingTokenRequests[acq[a].key] = b

\* call c has resumed from its await of acquireAccessToken with the outcome
Delivered(c) == call[c].awaiting # NoPromise /\ call[c].pc # "awaitToken"

(* C13: the pending entry of an acquisition is removed before its outcome,  *)
(* token or error, is delivered to any caller awaiting it: whenever a       *)
(* caller, the initiator or one that joined, has resumed with the outcome   *)
(* of an acquisition, the pending map does not hold that acquisition's      *)
(* entry, and the acquisition is settled.                                   *)
C13_RemovedBeforeDelivery ==
  \A c \in Calls :
    Delivered(c)
      => LET a == call[c].awaiting
         IN /\ Settled(a)
            /\ acq[a].released
            /\ pendingTokenRequests[acq[a].key] # a

\* a joiner has resumed with the token while the initiator, which has
\* resumed too, has not yet had the response to its retry
C13_Witness ==
  \E c, d \in Calls :
    /\ c # d
    /\ call[c].awaiting = c
    /\ call[d].awaiting = c
    /\ acq[c].st = "fulfilled"
    /\ call[c].pc = "retrySend"
    /\ call[d].pc = "retrySend"
    /\ pendingTokenRequests[acq[c].key] = NoPromise

----------------------------------------------------------------------------
(* Lookup and store steps, as seen from the state before and after them *)

\* call d completes its getCachedToken in this step (its first request is sent)
LookupStep(d) == call[d].reqs = <<>> /\ call'[d].reqs # <<>>

\* the resource key it looked up, the internal entry under it, what it got
LookupKey(d) == getResourceUrl(call'[d].url)
LookupEntry(d) == tokenCache[LookupKey(d)]
LookupResult(d) == call'[d].reqs[1]

\* acquisition a stores its access token in this step (line 316)
StoreStep(a) == acq[a].st = "grant" /\ acq'[a].token # NoToken

(* C14: a token stored in the internal cache at time T from a response with *)
(* expires_in = 3600 is returned by a lookup of its key at every time       *)
(* strictly before T + 3540 s and is treated as absent at T + 3540 s and at *)
(* every later time (the external lookup having returned nothing).          *)
C14_ServedUntilBuffer ==
  [][\A d \in Calls :
       (LookupStep(d) /\ LookupEntry(d) # NoEntry
          /\ LookupEntry(d).expiresIn = Num(3600) /\ call'[d].ext = NoToken)
         => IF now < LookupEntry(d).storedAt + 3540 * MsPerSecond
            THEN LookupResult(d) = LookupEntry(d).token
            ELSE LookupResult(d) = NoToken]_vars

\* a lookup made exactly 3540 s after a one-hour token was stored found nothing
C14_Witness ==
  \E d \in Calls :
    LET en == tokenCache[KeyOf(d)]
    IN /\ call[d].pc = "bareSend"
       /\ call[d].reqs = <<NoToken>>
       /\ en # NoEntry
       /\ en.expiresIn = Num(3600)
       /\ now = en.storedAt + 3540 * MsPerSecond

(* C15, as claimed: lookup never returns a cached token whose expiresAt     *)
(* field is at most now + 60 s.                                             *)
C15_NeverWithinBuffer ==
  [][\A d \in Calls :
       (LookupStep(d) /\ LookupResult(d).kind = "access")
         => LookupEntry(d).expiresAt > now + SkewBufferMs]_vars

(* C15, amended: lookup never returns a cached token whose expiresAt field  *)
(* is at most now: the token it returns from the internal cache is the      *)
(* entry of the key looked up and that entry has expiresAt > now (the 60 s  *)
(* buffer is subtracted once, when expiresAt is computed at the store).     *)
C15_NeverExpired ==
  [][\A d \in Calls :
       (LookupStep(d) /\ LookupResult(d).kind = "access")
         => /\ LookupEntry(d).token = LookupResult(d)
            /\ LookupEntry(d).expiresAt > now]_vars

\* a token is served one millisecond before its expiresAt, within the buffer
C15_Witness ==
  \E d \in Calls :
    LET en == tokenCache[KeyOf(d)]
    IN /\ call[d].pc = "cachedSend"
       /\ call[d].reqs = <<en.token>>
       /\ en.token.kind = "access"
       /\ en.expiresAt = now + 1

(* C16: the expiresAt stored with an access token is now + expires_in of    *)
(* the response - 60 s for every value the response supplies; 3600 s is     *)
(* used only when the response omits expires_in.                            *)
C16_ExpiresAtFromSuppliedValue ==
  [][\A a \in Calls :
       StoreStep(a)
         => LET en == tokenCache'[CacheKey(a)]
                secs == IF en.expiresIn.def THEN en.expiresIn.n ELSE DefaultExpiresIn
            IN en.expiresAt = now + secs * MsPerSecond - SkewBufferMs]_vars

C19_ExpiredEntryEvictedOnRead ==
  [][\A d \in Calls :
       (LookupStep(d) /\ call'[d].ext = NoToken
          /\ LookupEntry(d) # NoEntry /\ LookupEntry(d).expiresAt <= now)
         => tokenCache'[LookupKey(d)] = NoEntry]_vars

(* C18: when the request sent with a cached credential is answered 401, the *)
(* internal cache entry of that resource key is removed and the request is  *)
(* sent again with no credential, in the same step, which examines no       *)
(* challenge and starts or joins no acquisition; a challenge is examined,   *)
(* and an acquisition started or joined, only on the response to a bare     *)
(* request.                                                                 *)
C18_EvictThenBare ==
  [][\A c \in Calls :
       /\ (call[c].pc = "cachedSend" /\ call'[c].pc = "bareSend")
            => /\ tokenCache'[KeyOf(c)] = NoEntry
               /\ \A k \in Origins \ {KeyOf(c)} : tokenCache'[k] = tokenCache[k]
               /\ call'[c].reqs = Append(call[c].reqs, NoToken)
               /\ call'[c].examined = ""
               /\ call'[c].awaiting = NoPromise
               /\ acq' = acq
               /\ pendingTokenRequests' = pendingTokenRequests
       /\ (call[c].pc = "cachedSend" /\ call'[c].pc \in {"Returned", "Failed"})
            => tokenCache' = tokenCache
       /\ ( \/ (call[c].examined = "" /\ call'[c].examined # "")
            \/ (call[c].awaiting = NoPromise /\ call'[c].awaiting # NoPromise)
            \/ (acq[c].st = "none" /\ acq'[c].st # "none") )
            => (call[c].pc = "bareSend" /\ call[c].reqs[Len(call[c].reqs)] = NoToken)]_vars

\* a cached access token was rejected: its entry is gone, the bare request
\* is out, and nothing else has happened for this call
C18_Witness ==
  \E c \in Calls :
    /\ call[c].pc = "bareSend"
    /\ Len(call[c].reqs) = 2
    /\ call[c].reqs[1].kind = "access"
    /\ call[c].reqs[2] = NoToken
    /\ tokenCache[KeyOf(c)] = NoEntry

\* the outbound calls of one acquisition in the order of performTokenAcquisition;
\* the second discovery request is made only when the first has failed
PipelineOrder == <<"prm", "asm1", "getIdToken", "idp", "grant", "store", "hook">>

IsSecondDiscovery(x) == x = "asm2"
IsPipelineCall(x) == x # "asm2"

(* C20: within one acquisition the outbound calls occur in the strict order *)
(* protected resource metadata fetch, authorization server metadata         *)
(* discovery (one request, or two when the first fails), identity-to-       *)
(* assertion exchange, assertion-to-access-token exchange, cache store; a   *)
(* request carrying the acquired token (the retry) is sent only after the   *)
(* store; the access token exchange is outstanding only with the assertion  *)
(* the first exchange returned, and the two exchanges are never outstanding *)
(* together.                                                                *)
C20_PipelineOrder ==
  /\ \A a \in Calls :
       LET log == SelectSeq(acq[a].calls, IsPipelineCall)
       IN /\ Len(log) <= Len(PipelineOrder)
          /\ \A i \in 1 .. Len(log) : log[i] = PipelineOrder[i]
          /\ Len(SelectSeq(acq[a].calls, IsSecondDiscovery)) <= 1
          /\ \A i \in 1 .. Len(acq[a].calls) :
               acq[a].calls[i] = "asm2" => (i = 3 /\ acq[a].calls[2] = "asm1")
          /\ acq[a].st = "idp"
               => (Count(acq[a].calls, "idp") = 1 /\ Count(acq[a].calls, "grant") = 0)
          /\ acq[a].st = "grant"
               => /\ acq[a].idJag = IdJag(a)
                  /\ acq[a].calls[Len(acq[a].calls)] = "grant"
                  /\ Count(acq[a].calls, "idp") = 1
          /\ acq[a].token # NoToken => Count(acq[a].calls, "store") = 1
  /\ \A c \in Calls :
       \A i \in 1 .. Len(call[c].reqs) :
         call[c].reqs[i].kind = "access"
           => /\ Count(acq[call[c].reqs[i].by].calls, "store") = 1
              /\ acq[call[c].reqs[i].by].st \in {"fulfilled", "hook", "rejected"}
  /\ \A c \in Calls :
       (Delivered(c) /\ call[c].pc # "Failed")
         => /\ acq[call[c].awaiting].st = "fulfilled"
            /\ call[c].reqs[Len(call[c].reqs)] = AccessToken(call[c].awaiting)

\* an acquisition that needed the second discovery request and has a hook
\* has made every call, and the retry that followed it was answered
C20_Witness ==
  \E c \in Calls :
    /\ acq[c].calls = <<"prm", "asm1", "asm2", "getIdToken", "idp", "grant", "store", "hook">>
    /\ acq[c].st = "fulfilled"
    /\ call[c].pc = "Returned"
    /\ call[c].reqs = <<NoToken, AccessToken(c)>>

----------------------------------------------------------------------------
(* Discovery of the authorization server metadata *)

\* a discovery step of acquisition a: the reply to the first, to the second request
FirstDiscoveryStep(a) == acq[a].st = "asm1" /\ acq'[a].st # "asm1"
SecondDiscoveryStep(a) == acq[a].st = "asm2" /\ acq'[a].st # "asm2"

\* the reply was a network error or a non-2xx response
FailedReply(r) == r.status = NetworkError \/ ~IsOk(r.status)

\* the error of discoverAuthorizationServerMetadata for the issuer of acquisition a
DiscoveryError(a) ==
  "Failed to discover authorization server metadata for " \o acq[a].asmIssuer

\* the metadata document of reply r is the result of the discovery
DiscoveryResultIs(a, r) ==
  IF r.endpoint = NoUrl
  THEN acq'[a].st = "rejected"
         /\ acq'[a].error = "Authorization server metadata missing token_endpoint"
  ELSE acq'[a].st = "idToken" /\ acq'[a].tokenEndpoint = r.endpoint

(* C21, as claimed: /.well-known/oauth-authorization-server is requested    *)
(* first and /.well-known/openid-configuration second, the second only if   *)
(* the first attempt failed by a network error or a non-2xx response.       *)
C21_SecondOnlyAfterFailedStatus ==
  [][\A a \in Calls :
       (FirstDiscoveryStep(a) /\ acq'[a].st = "asm2") => FailedReply(acq'[a].reply)]_vars

(* C21, amended: the second path is requested exactly when the first        *)
(* attempt failed, by a network error, a non-2xx response or a 2xx response *)
(* whose body is not JSON; the first attempt that succeeds gives the result *)
(* (its metadata document); a failure of the first attempt is not surfaced  *)
(* when the second succeeds; and the operation fails, with an error naming  *)
(* the issuer, exactly when both attempts fail.                             *)
C21_DiscoveryFallback ==
  [][\A a \in Calls :
       LET r == acq'[a].reply
           failed == FailedReply(r) \/ ~r.body.json
       IN /\ FirstDiscoveryStep(a)
               => /\ Count(acq[a].calls, "asm2") = 0
                  /\ IF failed
                     THEN /\ acq'[a].st = "asm2"
                          /\ acq'[a].calls = Append(acq[a].calls, "asm2")
                          /\ acq'[a].error = ""
                     ELSE /\ DiscoveryResultIs(a, r)
                          /\ Count(acq'[a].calls, "asm2") = 0
          /\ SecondDiscoveryStep(a)
               => /\ Count(acq[a].calls, "asm1") = 1
                  /\ Count(acq[a].calls, "asm2") = 1
                  /\ IF failed
                     THEN /\ acq'[a].st = "rejected"
                          /\ acq'[a].error = DiscoveryError(a)
                          /\ acq[a].asmIssuer \in {AuthServer, AuthServer2}
                     ELSE DiscoveryResultIs(a, r)
          /\ (acq'[a].st = "rejected" /\ acq[a].st # "rejected"
                /\ acq'[a].error \in {"Failed to discover authorization server metadata for " \o i :
                                        i \in {AuthServer, AuthServer2}})
               => (SecondDiscoveryStep(a) /\ failed)]_vars

\* the first attempt failed, the second succeeded, and the acquisition went
\* on to getIdToken with the token endpoint of the second document
C21_Witness ==
  \E a \in Calls :
    /\ acq[a].calls = <<"prm", "asm1", "asm2", "getIdToken">>
    /\ acq[a].st = "idToken"
    /\ IsOk(acq[a].reply.status)
    /\ acq[a].tokenEndpoint = acq[a].reply.endpoint

\* the reply to the token exchange request of acquisition a is consumed
TokenExchangeStep(a) == acq[a].st = "idp" /\ acq'[a].st # "idp"

(* C22: when the identity-to-assertion exchange is answered 2xx with an     *)
(* issued_token_type other than urn:ietf:params:oauth:token-type:id-jag,    *)
(* the acquisition fails at that step, with no cache store, and the         *)
(* assertion-to-access-token exchange call is never made for it: a rejected *)
(* acquisition makes no further call, and the access token exchange begins  *)
(* only on a 2xx reply of type id-jag.                                      *)
C22_WrongTokenTypeFatal ==
  [][\A a \in Calls :
       LET r == acq'[a].reply
       IN /\ (TokenExchangeStep(a) /\ IsOk(r.status) /\ r.tokenType # IdJagTokenType)
               => /\ acq'[a].st = "rejected"
                  /\ acq'[a].error = "Unexpected token type: " \o r.tokenType
                  /\ acq'[a].calls = acq[a].calls
                  /\ Count(acq'[a].calls, "grant") = 0
                  /\ tokenCache' = tokenCache
          /\ acq[a].st = "rejected"
               => (acq'[a].st = "rejected" /\ acq'[a].calls = acq[a].calls)
          /\ (acq[a].st # "grant" /\ acq'[a].st = "grant")
               => (TokenExchangeStep(a) /\ IsOk(r.status) /\ r.tokenType = IdJagTokenType)]_vars

\* the exchange returned a token of another type: the acquisition is rejected
\* after the token exchange call, and its initiator has failed with that error
C22_Witness ==
  \E a \in Calls :
    /\ acq[a].st = "rejected"
    /\ IsOk(acq[a].reply.status)
    /\ acq[a].reply.tokenType # ""
    /\ acq[a].reply.tokenType # IdJagTokenType
    /\ acq[a].calls[Len(acq[a].calls)] = "idp"
    /\ call[a].pc = "Failed"
    /\ call[a].error = "Unexpected token type: " \o acq[a].reply.tokenType

(* C23: the assertion (ID-JAG) obtained in the first exchange is never      *)
(* written to the token cache and never attached to a request to the target *)
(* resource: every token in the cache is the access_token returned by the   *)
(* assertion-to-access-token exchange of an acquisition that made that      *)
(* exchange, the token an acquisition resolves with is that access_token,   *)
(* and every request to the target is bare or carries such an access_token  *)
(* or a token given by getCachedAccessToken.                                *)
C23_AssertionNeverCached ==
  /\ \A o \in Origins :
       LET t == tokenCache[o].token
       IN /\ t.kind \in {"none", "access"}
          /\ t.kind = "access"
               => (Count(acq[t.by].calls, "grant") = 1 /\ Count(acq[t.by].calls, "store") = 1)
  /\ \A a \in Calls : acq[a].token \in {NoToken, AccessToken(a)}
  /\ \A c \in Calls :
       \A i \in 1 .. Len(call[c].reqs) :
         LET t == call[c].reqs[i]
         IN /\ t.kind \in {"none", "access", "ext"}
            /\ t.kind = "access" => Count(acq[t.by].calls, "grant") = 1

\* an acquisition that obtained an assertion has stored its access token and
\* its caller has retried with it
C23_Witness ==
  \E a \in Calls, o \in Origins :
    /\ acq[a].st = "fulfilled"
    /\ Count(acq[a].calls, "idp") = 1
    /\ tokenCache[o].token = AccessToken(a)
    /\ call[a].reqs = <<NoToken, AccessToken(a)>>

(* C24: clearTokenForResource(key) removes the internal cache entry of key  *)
(* and leaves every other entry as it was and returned by lookup as before; *)
(* clearTokenCache removes every internal cache entry; neither touches the  *)
(* pending map, the calls or the acquisitions.                              *)
C24_ClearRemovesOnlyKey ==
  [][/\ \A k \in Origins :
          clearTokenForResource(k)
            => /\ tokenCache'[k] = NoEntry
               /\ InternalLookup(k)' = NoToken
               /\ \A o \in Origins \ {k} :
                    /\ tokenCache'[o] = tokenCache[o]
                    /\ InternalLookup(o)' = InternalLookup(o)
               /\ UNCHANGED <<pendingTokenRequests, call, acq>>
     /\ clearTokenCache
          => /\ \A o \in Origins : tokenCache'[o] = NoEntry /\ InternalLookup(o)' = NoToken
             /\ UNCHANGED <<pendingTokenRequests, call, acq>>]_vars

\* two tokens were stored under two keys and the later one alone was cleared:
\* the earlier one is still in the cache and returned by lookup
C24_Witness ==
  \E a, b \in Calls, o \in Origins :
    /\ a < b
    /\ acq[a].st = "fulfilled"
    /\ acq[b].st = "fulfilled"
    /\ \A k \in Origins : tokenCache[k].token # AccessToken(b)
    /\ tokenCache[o].token = AccessToken(a)
    /\ InternalLookup(o) = AccessToken(a)

(* C25: acquisitions for different resource keys are independent: a caller  *)
(* for key K2 never waits for an acquisition started for another key K1,    *)
(* never fails with its error, and never sends to its target a token that   *)
(* an acquisition for another key obtained.                                 *)
C25_KeysIndependent ==
  \A c \in Calls :
    /\ call[c].awaiting # NoPromise
         => /\ acq[call[c].awaiting].key = KeyOf(c)
            /\ call[c].error \in {"", "network", acq[call[c].awaiting].error}
    /\ \A i \in 1 .. Len(call[c].reqs) :
         call[c].reqs[i].kind = "access" => acq[call[c].reqs[i].by].key = KeyOf(c)

\* the text an upstream failure message starts with, by the call awaited
FailurePrefix(a) ==
  IF acq[a].st = "prm" THEN "Failed to fetch protected resource metadata: "
  ELSE IF acq[a].st = "asm2" THEN DiscoveryError(a) \o ": "
  ELSE IF acq[a].st = "idp" THEN "Token exchange failed: "
  ELSE "JWT bearer grant failed: "

\* acquisition a consumes a non-2xx reply at one of the call sites S
NonOkReplyAt(a, S) ==
  /\ acq[a].st \in S
  /\ acq'[a].st # acq[a].st
  /\ acq'[a].reply.status # NetworkError
  /\ ~IsOk(acq'[a].reply.status)

(* C26: at each of the four outbound call sites (protected resource         *)
(* metadata fetch, authorization server metadata discovery, identity-to-    *)
(* assertion exchange, assertion-to-access-token exchange) a non-2xx reply  *)
(* that ends the call fails the acquisition with a message rendered from    *)
(* the error / error_description fields of a JSON body carrying them, and   *)
(* from the HTTP status line otherwise.                                     *)
C26_UpstreamErrorRendered ==
  [][\A a \in Calls :
       NonOkReplyAt(a, {"prm", "asm2", "idp", "grant"})
         => /\ acq'[a].st = "rejected"
            /\ acq'[a].error =
                 FailurePrefix(a) \o extractOAuthError(acq'[a].reply.status, acq'[a].reply.body)]_vars

\* acquisition a consumes the reply to the call it awaits at one of the sites S
ReplyAt(a, S) == acq[a].st \in S /\ acq'[a].st # acq[a].st

\* authorization_servers of the document is missing or empty; line 176
NoServers(r) == ~r.servers.def \/ r.servers.v = <<>>

(* C27: a protected resource metadata document with missing or empty        *)
(* authorization_servers fails the acquisition before any authorization     *)
(* server discovery call; an authorization server metadata document without *)
(* token_endpoint fails it before getIdToken and before any exchange call;  *)
(* otherwise the first entry of authorization_servers is the issuer of both *)
(* discovery requests and the audience of the token exchange.               *)
C27_MetadataValidated ==
  [][\A a \in Calls :
       /\ (ReplyAt(a, {"prm"}) /\ IsOk(acq'[a].reply.status))
            => IF NoServers(acq'[a].reply)
               THEN /\ acq'[a].st = "rejected"
                    /\ acq'[a].error = "No authorization servers found in protected resource metadata"
                    /\ acq'[a].calls = <<"prm">>
               ELSE /\ acq'[a].st = "asm1"
                    /\ acq'[a].asmIssuer = acq'[a].reply.servers.v[1]
       /\ (ReplyAt(a, {"asm1", "asm2"}) /\ acq'[a].reply.status # NetworkError
             /\ IsOk(acq'[a].reply.status) /\ acq'[a].reply.body.json
             /\ acq'[a].reply.endpoint = NoUrl)
            => /\ acq'[a].st = "rejected"
               /\ acq'[a].error = "Authorization server metadata missing token_endpoint"
               /\ \A i \in 1 .. Len(acq'[a].calls) :
                    acq'[a].calls[i] \notin {"getIdToken", "idp", "grant"}
       /\ (acq[a].st \in {"asm1", "asm2", "idToken"} /\ ~Settled(a)')
            => acq'[a].asmIssuer = acq[a].asmIssuer
       /\ (ReplyAt(a, {"idToken"}) /\ acq'[a].st = "idp")
            => acq'[a].audience = acq[a].asmIssuer]_vars

\* one acquisition failed on a document without token_endpoint having made
\* only discovery calls, another sends the token exchange with the first of
\* the authorization servers as audience after a second discovery request
C27_Witness ==
  \E a, b \in Calls :
    /\ acq[a].st = "rejected"
    /\ acq[a].error = "Authorization server metadata missing token_endpoint"
    /\ acq[a].calls = <<"prm", "asm1">>
    /\ acq[b].st = "idp"
    /\ acq[b].calls = <<"prm", "asm1", "asm2", "getIdToken", "idp">>
    /\ acq[b].audience = AuthServer

\* the response to the first request of call c arrives
FirstResponse(c) == Len(call[c].got) = 0 /\ Len(call'[c].got) = 1

(* C29: a fetch call whose first response from the target, to a request     *)
(* sent with a cached credential or bare after an empty lookup, is not a    *)
(* 401 returns that response after exactly one request to the target,       *)
(* starts no acquisition, and leaves the token cache and the pending map    *)
(* unchanged.                                                               *)
C29_FirstResponseReturned ==
  [][\A c \in Calls :
       (FirstResponse(c) /\ call'[c].got[1] \notin {StatusUnauthorized, NetworkError})
         => /\ call'[c].pc = "Returned"
            /\ call'[c].result.status = call'[c].got[1]
            /\ call'[c].result.id = <<c, 1>>
            /\ Len(call'[c].reqs) = 1
            /\ call'[c].awaiting = NoPromise
            /\ UNCHANGED <<tokenCache, pendingTokenRequests, acq>>]_vars

\* a call returned the 200 answer to its only request, sent with the token
\* another call's acquisition stored, and the token is still in the cache
C29_Witness ==
  \E c \in Calls :
    /\ call[c].pc = "Returned"
    /\ call[c].got = <<200>>
    /\ Len(call[c].reqs) = 1
    /\ call[c].reqs[1].kind = "access"
    /\ tokenCache[KeyOf(c)].token = call[c].reqs[1]
    /\ ~Started(c)

\* the rejection of config.getIdToken(), as performTokenExchange rethrows it
IdTokenError == "getIdToken failed"

(* C30: if getIdToken fails, the acquisition fails with that error for      *)
(* every caller awaiting it, no request is sent to the identity provider,   *)
(* no access token exchange is made, nothing is stored, and the pending     *)
(* entry is removed; getIdToken is called only after the protected resource *)
(* metadata and the authorization server metadata have both been obtained.  *)
C30_IdTokenFailureFatal ==
  [][\A a \in Calls :
       /\ (ReplyAt(a, {"idToken"}) /\ ~acq'[a].reply.idToken)
            => /\ acq'[a].st = "rejected"
               /\ acq'[a].error = IdTokenError
               /\ acq'[a].calls = acq[a].calls
               /\ UNCHANGED <<tokenCache, pendingTokenRequests>>
       /\ (acq'[a].st = "rejected" /\ acq'[a].error = IdTokenError)
            => /\ \A i \in 1 .. Len(acq'[a].calls) :
                    acq'[a].calls[i] \notin {"idp", "grant", "store", "hook"}
               /\ \A c \in Calls :
                    (call'[c].awaiting = a /\ call'[c].pc # "awaitToken")
                      => (call'[c].pc = "Failed" /\ call'[c].error = IdTokenError)
               /\ acq'[a].released => pendingTokenRequests'[acq'[a].key] # a
               /\ (call[a].pc = "awaitToken" /\ call'[a].pc # "awaitToken")
                    => (acq'[a].released /\ pendingTokenRequests'[acq'[a].key] = NoPromise)
       /\ (acq[a].st # "idToken" /\ acq'[a].st = "idToken")
            => /\ acq[a].st \in {"asm1", "asm2"}
               /\ acq[a].calls[1] = "prm"
               /\ acq[a].asmIssuer # ""
               /\ acq'[a].reply.status # NetworkError
               /\ IsOk(acq'[a].reply.status)
               /\ acq'[a].reply.endpoint # NoUrl
               /\ acq'[a].calls = Append(acq[a].calls, "getIdToken")
       /\ (acq[a].st # "asm1" /\ acq'[a].st = "asm1")
            => (acq[a].st = "prm" /\ IsOk(acq'[a].reply.status) /\ ~NoServers(acq'[a].reply))]_vars

\* getIdToken failed after both discoveries: the initiator and a joiner have
\* failed with its error, and the pending entry is gone
C30_Witness ==
  \E c, d \in Calls :
    /\ c # d
    /\ acq[c].st = "rejected"
    /\ acq[c].error = IdTokenError
    /\ acq[c].calls = <<"prm", "asm1", "getIdToken">>
    /\ acq[c].released
    /\ pendingTokenRequests[acq[c].key] = NoPromise
    /\ call[c].pc = "Failed" /\ call[c].error = IdTokenError
    /\ call[d].awaiting = c
    /\ call[d].pc = "Failed" /\ call[d].error = IdTokenError

----------------------------------------------------------------------------
(* Progress: every outbound request is answered and every configured        *)
(* callback returns; fetch itself is called or not. No step of a call       *)
(* waits for the clock, which stands still here.                            *)

Responds ==
  \/ \E c \in Calls : ExtLookupReturn(c) /\ UNCHANGED <<parsing, cleared>>
  \/ \E c \in Calls : CachedResponse(c) /\ UNCHANGED <<parsing, cleared>>
  \/ \E c \in Calls : BareResponse(c) /\ UNCHANGED <<parsing, cleared>>
  \/ \E a \in Calls : PrmResponse(a) /\ UNCHANGED <<parsing, cleared>>
  \/ \E a \in Calls : AsmResponse1(a) /\ UNCHANGED <<parsing, cleared>>
  \/ \E a \in Calls : AsmResponse2(a) /\ UNCHANGED <<parsing, cleared>>
  \/ \E a \in Calls : IdTokenReturn(a) /\ UNCHANGED <<parsing, cleared>>
  \/ \E a \in Calls : IdpResponse(a) /\ UNCHANGED <<parsing, cleared>>
  \/ \E a \in Calls : GrantResponse(a) /\ UNCHANGED <<parsing, cleared>>
  \/ \E a \in Calls : HookReturn(a) /\ UNCHANGED <<parsing, cleared>>
  \/ \E c \in Calls : InitiatorResume(c) /\ UNCHANGED <<parsing, cleared>>
  \/ \E c \in Calls : JoinerResume(c) /\ UNCHANGED <<parsing, cleared>>
  \/ \E c \in Calls : RetryResponse(c) /\ UNCHANGED <<parsing, cleared>>

NextLive ==
  \/ \E c \in Calls : Fetch(c) /\ UNCHANGED <<parsing, cleared>>
  \/ Responds

LiveSpec == Init /\ [][NextLive]_vars /\ WF_vars(Responds)

(* C28: provided every outbound request and every configured callback       *)
(* eventually responds, every fetch call that was made eventually reaches   *)
(* Returned or Failed; in particular a caller that joined a pending         *)
(* acquisition stops waiting once that acquisition has settled.             *)
C28_EveryCallTerminates ==
  \A c \in Calls :
    /\ (call[c].pc # "idle") ~> Terminal(c)
    /\ (call[c].pc = "awaitToken" /\ call[c].awaiting # c /\ Settled(call[c].awaiting))
         ~> (call[c].pc # "awaitToken")

\* a caller that joined the acquisition of another has returned the answer
\* to its retry, and every call is over
C28_Witness ==
  \E c, d \in Calls :
    /\ c # d
    /\ call[d].awaiting = c
    /\ call[d].pc = "Returned"
    /\ Len(call[d].reqs) = 2
    /\ \A e \in Calls : Terminal(e)

----------------------------------------------------------------------------
(* parseWwwAuthenticate on its own: challenge headers put together from a   *)
(* scheme and up to MaxParams parameters with distinct keys, recognized or  *)
(* not, in any order, each value a token or a quoted string.                *)

MaxParams == 2

H_DPoP == <<"D","P","o","P">>
Schemes == {H_Bearer, H_DPoP}

RecognizedKeys == {K_realm, K_scope, K_error, K_error_description, K_resource_metadata}

\* auth-param names the parser has no case for; a name is a token, and a
\* token may hold characters that are not \w
K_nonce == <<"n","o","n","c","e">>
K_x_scope == <<"x","-","s","c","o","p","e">>
UnknownKeys == {K_nonce, K_x_scope}

\* values that are tokens, written quoted or unquoted
TokenValues == {<<"a">>, <<"b","2">>}
\* values that can only be written as a quoted string
QuotedOnlyValues == {<<>>, <<"a"," ","b",",","c","=","d">>}

Param(k, v, q) == [key |-> k, value |-> v, quoted |-> q]

ParamChoices(K) ==
  {Param(k, v, q) : k \in K, v \in TokenValues, q \in BOOLEAN}
    \cup {Param(k, v, TRUE) : k \in K, v \in QuotedOnlyValues}

DistinctKeys(ps) == \A i, j \in 1 .. Len(ps) : i # j => ps[i].key # ps[j].key

ParamLists(K) ==
  {ps \in UNION {[1 .. n -> ParamChoices(K)] : n \in 0 .. MaxParams} : DistinctKeys(ps)}

Declarations ==
  {[scheme |-> sch, params |-> ps] : sch \in Schemes, ps \in ParamLists(RecognizedKeys \cup UnknownKeys)}

\* key=value or key="value"
RenderParam(pm) ==
  pm.key \o <<"=">> \o (IF pm.quoted THEN <<"\"">> \o pm.value \o <<"\"">> ELSE pm.value)

RECURSIVE RenderParams(_)
RenderParams(ps) ==
  IF Len(ps) = 0 THEN <<>>
  ELSE IF Len(ps) = 1 THEN RenderParam(ps[1])
  ELSE RenderParam(ps[1]) \o <<",", " ">> \o RenderParams(Tail(ps))

\* the header value: scheme, a space, the parameters separated by ", "
RenderChallenge(d) ==
  IF Len(d.params) = 0 THEN d.scheme ELSE d.scheme \o <<" ">> \o RenderParams(d.params)

\* the value declared for key k, if any
Declared(d, k) ==
  IF \E i \in 1 .. Len(d.params) : d.params[i].key = k
  THEN Some(d.params[CHOOSE i \in 1 .. Len(d.params) : d.params[i].key = k].value)
  ELSE Undef

\* parseWwwAuthenticate(headerValue) is called and returns
Parse ==
  /\ ~parsing.done
  /\ parsing.decl # NoDecl
  /\ parsing' = [parsing EXCEPT !.challenge = parseWwwAuthenticate(parsing.header),
                                !.done = TRUE]
  /\ UNCHANGED <<cfg, now, tokenCache, pendingTokenRequests, call, acq, cleared>>

ParserInit ==
  /\ cfg = [getCachedAccessToken |-> FALSE, onAccessTokenReceived |-> FALSE]
  /\ now = 0
  /\ tokenCache = [o \in Origins |-> NoEntry]
  /\ pendingTokenRequests = [o \in Origins |-> NoPromise]
  /\ call = [c \in Calls |-> NoCall]
  /\ acq = [c \in Calls |-> NoAcq]
  /\ parsing \in {[NoParsing EXCEPT !.decl = d, !.header = RenderChallenge(d)] : d \in Declarations}
  /\ cleared = {}

NextParser == Parse

ParserSpec == ParserInit /\ [][NextParser]_vars

(* C31: for every valid challenge header built from a scheme and any subset *)
(* of the recognized keys in any order, each value quoted or unquoted, with *)
(* unknown keys interspersed, parseWwwAuthenticate returns the leading      *)
(* token as scheme and each recognized field with its declared value, and   *)
(* an unknown key sets no field.                                            *)
C31_ParserExtractsDeclared ==
  parsing.done
    => /\ parsing.challenge.scheme = parsing.decl.scheme
       /\ parsing.challenge.realm = Declared(parsing.decl, K_realm)
       /\ parsing.challenge.scope = Declared(parsing.decl, K_scope)
       /\ parsing.challenge.error = Declared(parsing.decl, K_error)
       /\ parsing.challenge.error_description = Declared(parsing.decl, K_error_description)
       /\ parsing.challenge.resource_metadata = Declared(parsing.decl, K_resource_metadata)

\* request i of call c carries an access token the middleware acquired
CarriesAcquired(c, i) == call[c].reqs[i].kind = "access"

\* the resource key of the request whose 401 started the acquisition of the
\* token that request i of call c carries
AcquiredFor(c, i) == acq[call[c].reqs[i].by].key

(* C32: an access token of the internal cache is attached only to requests  *)
(* whose origin is the resource key of the request whose 401 started its    *)
(* acquisition: no fetch call to another origin carries it.                 *)
C32_TokenStaysWithResource ==
  \A c \in Calls : \A i \in 1 .. Len(call[c].reqs) :
    CarriesAcquired(c, i) => getResourceUrl(call[c].url) = AcquiredFor(c, i)

----------------------------------------------------------------------------
(* A middleware that has been in use: the cache holds, under every origin,  *)
(* the token an earlier fetch call, over by now, had acquired.              *)

\* the acquisition of a call made before those of Calls
EarlierCall == 0

\* what that acquisition stored at time 0 from a response without expires_in
WarmEntry ==
  [token |-> AccessToken(EarlierCall),
   expiresAt |-> 0 + DefaultExpiresIn * MsPerSecond - SkewBufferMs,
   storedAt |-> 0, expiresIn |-> NoNumber]

WarmInit ==
  /\ cfg \in [getCachedAccessToken : BOOLEAN, onAccessTokenReceived : BOOLEAN]
  /\ now = 0
  /\ tokenCache = [o \in Origins |-> WarmEntry]
  /\ pendingTokenRequests = [o \in Origins |-> NoPromise]
  /\ call = [c \in Calls |-> NoCall]
  /\ acq = [c \in Calls |-> NoAcq]
  /\ parsing = NoParsing
  /\ cleared = {}

WarmSpec == WarmInit /\ [][Next]_vars

\* call c evicts after the 401 to its request sent with a cached token
EvictionStep(c) == call[c].pc = "cachedSend" /\ call'[c].pc = "bareSend"

(* C33: the eviction after a cached-credential 401 removes only the entry   *)
(* holding the token that was rejected: if a concurrent acquisition stored  *)
(* a newer token under the same key between the sending of the request with *)
(* the old token and its 401, the newer token is still in the cache after   *)
(* the eviction.                                                            *)
C33_EvictsOnlyRejectedToken ==
  [][\A c \in Calls :
       (/\ EvictionStep(c)
        /\ call[c].reqs[1].kind = "access"
        /\ tokenCache[KeyOf(c)].token.kind = "access"
        /\ tokenCache[KeyOf(c)].token # call[c].reqs[1])
         => tokenCache'[KeyOf(c)] = tokenCache[KeyOf(c)]]_vars

----------------------------------------------------------------------------
(* Concurrent callers whose challenges differ: every 401 to a bare request  *)
(* carries a Bearer challenge with a resource_metadata URL, with or without *)
(* a scope, and the URL is one of two.  The clock stands still.             *)

JoinHeaderValues == {Some(H_BearerMeta), Some(H_BearerScopeMeta), Some(H_BearerMeta2)}

NextJoin ==
  \/ \E c \in Calls : Fetch(c) /\ UNCHANGED <<parsing, cleared>>
  \/ \E c \in Calls : ExtLookupReturn(c) /\ UNCHANGED <<parsing, cleared>>
  \/ \E c \in Calls : CachedResponse(c) /\ UNCHANGED <<parsing, cleared>>
  \/ \E c \in Calls : BareResponseWith(c, JoinHeaderValues) /\ UNCHANGED <<parsing, cleared>>
  \/ \E a \in Calls : PrmResponse(a) /\ UNCHANGED <<parsing, cleared>>
  \/ \E a \in Calls : AsmResponse1(a) /\ UNCHANGED <<parsing, cleared>>
  \/ \E a \in Calls : AsmResponse2(a) /\ UNCHANGED <<parsing, cleared>>
  \/ \E a \in Calls : IdTokenReturn(a) /\ UNCHANGED <<parsing, cleared>>
  \/ \E a \in Calls : IdpResponse(a) /\ UNCHANGED <<parsing, cleared>>
  \/ \E a \in Calls : GrantResponse(a) /\ UNCHANGED <<parsing, cleared>>
  \/ \E a \in Calls : HookReturn(a) /\ UNCHANGED <<parsing, cleared>>
  \/ \E c \in Calls : InitiatorResume(c) /\ UNCHANGED <<parsing, cleared>>
  \/ \E c \in Calls : JoinerResume(c) /\ UNCHANGED <<parsing, cleared>>
  \/ \E c \in Calls : RetryResponse(c) /\ UNCHANGED <<parsing, cleared>>

JoinSpec == Init /\ [][NextJoin]_vars

\* call c finds a pending acquisition and awaits it
JoinStep(c) ==
  /\ call[c].pc = "bareSend"
  /\ call'[c].pc = "awaitToken"
  /\ call'[c].awaiting # c

\* call c, which had joined an acquisition, resumes
JoinerResumeStep(c) ==
  /\ call[c].pc = "awaitToken"
  /\ call[c].awaiting # c
  /\ call'[c].pc # "awaitToken"

(* C34: deduplication is keyed on the resource origin alone: a caller that  *)
(* joins a pending acquisition receives exactly the token of that           *)
(* acquisition even when its own challenge carries another scope or another *)
(* resource_metadata URL, and the metadata URL and scope the acquisition    *)
(* sends are those it started with, never the joiner's.                     *)
C34_JoinByOriginAlone ==
  [][/\ \A c \in Calls :
          /\ JoinStep(c)
               => /\ call'[c].awaiting = pendingTokenRequests[KeyOf(c)]
                  /\ UNCHANGED <<acq, pendingTokenRequests, tokenCache>>
          /\ (JoinerResumeStep(c) /\ acq[call[c].awaiting].st = "fulfilled")
               => /\ call'[c].pc = "retrySend"
                  /\ call'[c].reqs = Append(call[c].reqs, AccessToken(call[c].awaiting))
     /\ \A a \in Calls :
          (InFlight(a) /\ acq'[a].st \notin {"fulfilled", "rejected"})
            => /\ acq'[a].metadataUrl = acq[a].metadataUrl
               /\ acq'[a].scope = acq[a].scope]_vars

\* an acquisition has made all its calls and holds its token while a caller
\* whose challenge named another metadata URL and another scope awaits it
C34_Witness ==
  \E c, d \in Calls :
    /\ c # d
    /\ call[d].pc = "awaitToken"
    /\ call[d].awaiting = c
    /\ acq[c].st = "hook"
    /\ acq[c].token = AccessToken(c)
    /\ call[d].own.metadataUrl # acq[c].metadataUrl
    /\ call[d].own.scope # acq[c].scope

\* a call of one of the two clear methods
ClearStep == clearTokenCache \/ \E k \in Origins : clearTokenForResource(k)

(* C35: clearTokenCache and clearTokenForResource modify the token cache    *)
(* only, never the pending map: an acquisition in flight when a clear is    *)
(* called is neither cancelled nor restarted and still stores its token on  *)
(* success, so the cache can hold a token after clearTokenCache although no *)
(* acquisition started after the clear.                                     *)
C35_ClearLeavesAcquisitions ==
  [][/\ ClearStep => UNCHANGED <<pendingTokenRequests, acq, call>>
     /\ \A a \in Calls :
          /\ Count(acq[a].calls, "prm") <= 1
          /\ InFlight(a) => acq'[a].st # "none"
          /\ (call[a].pc = "awaitToken" /\ InFlight(a)) => call[a].awaiting = a
          /\ StoreStep(a) => tokenCache'[CacheKey(a)].token = AccessToken(a)]_vars

\* clearTokenCache was called while the one acquisition there has been was in
\* flight; the acquisition has succeeded since and its token is in the cache
C35_Witness ==
  \E a \in Calls :
    /\ a \in cleared
    /\ \A b \in Calls \ {a} : ~Started(b)
    /\ acq[a].st = "fulfilled"
    /\ \E o \in Origins : tokenCache[o].token = AccessToken(a)

\* a step of acquisition a that is not the success of its JWT bearer grant
\* and not the return of onAccessTokenReceived
StepBeforeSuccess(a) ==
  /\ acq'[a] # acq[a]
  /\ acq[a].st # "hook"
  /\ acq'[a].st \notin {"hook", "fulfilled"}

\* acquisition a fails before its JWT bearer grant has succeeded
FailsBeforeSuccess(a) ==
  /\ acq[a].st \notin {"hook", "rejected"}
  /\ acq'[a].st = "rejected"

(* C36: if an acquisition fails at the resource metadata fetch, at the      *)
(* authorization server discovery, at a required-field check, at            *)
(* getIdToken, at the identity-to-assertion exchange, at the check of       *)
(* issued_token_type or at a non-2xx assertion-to-access-token exchange,    *)
(* none of its steps has changed the token cache, and onAccessTokenReceived *)
(* has not been invoked.                                                    *)
C36_FailureLeavesCache ==
  [][\A a \in Calls :
       /\ StepBeforeSuccess(a) => UNCHANGED tokenCache
       /\ FailsBeforeSuccess(a)
            => /\ \A i \in 1 .. Len(acq'[a].calls) : acq'[a].calls[i] \notin {"store", "hook"}
               /\ acq'[a].token = NoToken
               /\ \A o \in Origins : tokenCache'[o].token # AccessToken(a)]_vars

\* with onAccessTokenReceived configured, an acquisition failed at a non-2xx
\* JWT bearer grant while the cache held, and still holds, another token
C36_Witness ==
  \E a, b \in Calls :
    /\ a # b
    /\ cfg.onAccessTokenReceived
    /\ acq[a].st = "rejected"
    /\ acq[a].error = "JWT bearer grant failed: HTTP 400 Bad Request"
    /\ acq[a].calls = <<"prm", "asm1", "getIdToken", "idp", "grant">>
    /\ \E o \in Origins : tokenCache[o].token = AccessToken(b)

\* the JWT bearer grant of acquisition a is answered 2xx
GrantSuccessStep(a) == acq[a].st = "grant" /\ acq'[a].st \in {"hook", "fulfilled"}

\* call c sends its retry with the token it awaited
RetryStep(c) == call[c].pc = "awaitToken" /\ call'[c].pc = "retrySend"

(* C37: in a successful assertion-to-access-token exchange the token is     *)
(* stored in the cache before onAccessTokenReceived is invoked; the hook is *)
(* invoked once per acquisition, with the token response of the exchange,   *)
(* however many callers await the acquisition; and no caller sends its      *)
(* retry before the hook has returned.                                      *)
C37_StoreThenHookOnce ==
  [][/\ \A a \in Calls :
          /\ Count(acq'[a].calls, "hook") <= 1
          /\ \A i \in 1 .. Len(acq'[a].calls) :
               acq'[a].calls[i] = "hook" => (i > 1 /\ acq'[a].calls[i - 1] = "store")
          /\ GrantSuccessStep(a)
               => /\ tokenCache'[CacheKey(a)].token = AccessToken(a)
                  /\ acq'[a].token = AccessToken(a)
                  /\ IsOk(acq'[a].reply.status)
                  /\ acq'[a].calls = acq[a].calls \o
                       (IF cfg.onAccessTokenReceived THEN <<"store", "hook">> ELSE <<"store">>)
                  /\ cfg.onAccessTokenReceived => acq'[a].st = "hook"
          /\ acq[a].st = "hook" => acq'[a].calls = acq[a].calls
     /\ \A c \in Calls :
          RetryStep(c)
            => /\ acq[call[c].awaiting].st = "fulfilled"
               /\ Count(acq[call[c].awaiting].calls, "hook")
                    = (IF cfg.onAccessTokenReceived THEN 1 ELSE 0)
               /\ call'[c].reqs[Len(call'[c].reqs)] = AccessToken(call[c].awaiting)]_vars

\* the hook was invoked once, after the store, and has returned; the caller
\* that started the acquisition and one that joined it have sent their retry
C37_Witness ==
  \E c, d \in Calls :
    /\ c # d
    /\ cfg.onAccessTokenReceived
    /\ acq[c].st = "fulfilled"
    /\ acq[c].calls = <<"prm", "asm1", "getIdToken", "idp", "grant", "store", "hook">>
    /\ call[c].awaiting = c /\ call[c].reqs = <<NoToken, AccessToken(c)>>
    /\ call[d].awaiting = c /\ call[d].reqs = <<NoToken, AccessToken(c)>>

====
